---- MODULE Spec2Model ----
(***************************************************************************)
(* Model of the coordination plane of the blockchain indexer:              *)
(*   Queue.ts    work/processing lists, lease keys, watermarks, the two    *)
(*               Lua scripts (rate limiter, lastProcessed compare-and-set) *)
(*   Indexer.ts  the worker loop (next -> heartbeat -> processRange ->     *)
(*               complete | fail)                                          *)
(*   index.ts    the Seeder and Janitor interval routines                  *)
(* Every Redis command is one step; a pipeline() is a sequence of          *)
(* commands (not a transaction), a multi() is one atomic step.             *)
(* Time is counted in heartbeat intervals (30 s in Indexer.ts).            *)
(***************************************************************************)
EXTENDS Integers, Sequences, FiniteSets, TLC

\* ---------------------------------------------------------------- bounds
NumWorkers == 2      \* worker threads spawned by main
MaxTip     == 2      \* highest chain tip the Seeder observes
MaxLen     == 2      \* cap on the entries of queue:work and queue:processing together
MaxSeeds   == 2      \* seed() invocations explored
MaxThrows  == 1      \* processRange failures explored
MaxCrashes == 1      \* worker crashes explored
MaxScans   == 1      \* recoverZombies invocations explored
MinBlock   == 1      \* options.minBlockNumber
BatchSize  == 2      \* options.batchSize
LeaseTTL   == 2      \* options.leaseTTL, in heartbeat intervals
MaxClock   == 4      \* coordinator clock horizon of the rate limiter (ms)
MaxCalls   == 4      \* acquireToken calls explored
Limit      == 2      \* limit passed to acquireToken
WindowMs   == 2      \* windowMs passed to acquireToken
MaxSkew    == 2      \* largest offset of a worker clock from the coordinator
NumSeeders == 2      \* Seeder processes calling seed concurrently
MaxBatch   == 3      \* largest options.batchSize drawn
MaxMin     == 1      \* largest options.minBlockNumber drawn
MaxTarget  == 4      \* largest targetBlock drawn for a Queue with drawn options
MaxRetries == 1      \* largest options.maxRetries drawn
NumHashes  == 2      \* distinct blocks the chain can show at one height
MaxAttempts == 2     \* largest options.maxRetries drawn for the fetch tasks
MaxFetchTries == 4   \* largest options.maxRetries drawn for a Fetcher.fetch call on its own
RandomSteps == 4     \* Math.random() takes the values n / RandomSteps, n = 0 .. RandomSteps - 1
MaxBlocksAtOnce == 1 \* options.maxBlocksToProcessAtOnce (CONCURRENCY)
MaxTipQueries == 2   \* eth_blockNumber requests explored

MAX_RETRIES == 5     \* Indexer.MAX_RETRIES

Null == -1           \* a missing Redis key (GET returns nil)

Workers == 1..NumWorkers
Callers == 1..2
Seeders == 1..NumSeeders
NoRange == <<>>
NoSample == <<>>
NoSave == [blocks |-> <<>>, txs |-> <<>>, logs |-> <<>>, outcome |-> "none", range |-> <<>>]

VARIABLES
  work,           \* queue:work, head first
  processing,     \* queue:processing
  lock,           \* lock:range:* keys that exist, as range -> remaining TTL
  lastQueued,     \* queue:lastQueued or Null
  lastProcessed,  \* queue:lastProcessed or Null
  store,          \* heights with a committed row in blocks
  pc,             \* per worker: position in Indexer.start
  cur,            \* per worker: currentRange
  heartbeat,      \* per worker: the iteration's setInterval is armed
  leaked,         \* per worker: ranges with an interval that was never cleared
  lastAck,        \* history: `to` of the latest complete() that ran the script
  throws,         \* processRange failures so far
  crashes,        \* worker crashes so far
  spc,            \* Seeder: position in Queue.seed
  sTarget,        \* Seeder: targetBlock
  sStart,         \* Seeder: start handed to addBatches
  sNext,          \* Seeder: loop variable of addBatches
  seeds,          \* seed() invocations so far
  pushed,         \* heights appended by addBatches, as height -> times
  jpc,            \* Janitor: position in recoverZombies
  jrest,          \* Janitor: ranges of the LRANGE snapshot still to visit
  scans,          \* recoverZombies invocations so far (saturates at MaxScans)
  seeded,         \* history: ranges seed has appended to queue:work
  rlLog,          \* ratelimit:global as a set of <<score, member>>
  rlTtl,          \* PEXPIRE of ratelimit:global, remaining ms (0 = none)
  rlTwin,         \* the same log in a run where worker clocks are skewed
  rlTwinTtl,
  clock,          \* coordinator wall clock (ms)
  sampled,        \* per caller: <<Date.now(), Date.now() in the twin run, uuid>>
                  \*             of a call whose script has not run yet
  nextId,         \* stand-in for randomUUID: a fresh member each call
  admitted,       \* history: coordinator times of admitted calls
  lastRes,        \* history: <<result, result in the twin run>> of the last call
  sd,             \* per Seeder process: position, target and loop variable of its seed call
  sq,             \* a Queue with drawn options: the options and the latest seed call
  maxRetries,     \* options.maxRetries of the Fetcher
  db,             \* the relational store: blocks, transactions and logs tables
  lastSave,       \* history: arguments and outcome of the latest Database.save
  committed,      \* history: argument triples of the save calls that committed
  running,        \* per worker: Indexer.isRunning
  sv,             \* a Database.save call followed statement by statement
  ft,             \* per height: the fetchAndTransform task of processRange
  jan2,           \* a second recoverZombies invocation: position and snapshot
  bo,             \* a Fetcher.fetch call on its own: attempt, Math.random() and the delay slept
  pl,             \* per worker: fetch tasks of processRange behind pLimit
  rpc             \* the two request tasks of fetchInternal and the Seeder's tip queries

queueVars  == <<work, processing, lock, lastQueued, lastProcessed, store>>
histVars   == <<throws, crashes, lastAck>>
workerVars == <<pc, cur, heartbeat, leaked, histVars>>
seedVars   == <<spc, sTarget, sStart, sNext, seeds, pushed, seeded>>
janVars    == <<jpc, jrest, scans>>
rateVars   == <<rlLog, rlTtl, rlTwin, rlTwinTtl, clock, sampled, nextId, admitted, lastRes>>
taskVars   == <<bo, pl, rpc>>
runVars    == <<running, sv, ft, jan2, taskVars>>
auxVars    == <<sd, sq, maxRetries, db, lastSave, committed, runVars>>
vars == <<queueVars, workerVars, seedVars, janVars, rateVars, auxVars>>

\* ------------------------------------------------------------- helpers
\* `${from}-${to}` and parseRange: a range string is carried as the pair
RangeStr(from, to) == <<from, to>>
ParseRange(rangeStr) == <<rangeStr[1], rangeStr[2]>>

Heights(r) == r[1]..r[2]

Max(a, b) == IF a > b THEN a ELSE b

Elems(s) == {s[i] : i \in 1..Len(s)}

Count(s, r) == Cardinality({i \in 1..Len(s) : s[i] = r})

\* LREM key 1 value: remove the first occurrence, if any
RECURSIVE LRem1(_, _)
LRem1(s, r) ==
  IF s = <<>> THEN <<>>
  ELSE IF Head(s) = r THEN Tail(s)
  ELSE <<Head(s)>> \o LRem1(Tail(s), r)

\* RPUSH key value
RPush(s, r) == Append(s, r)

\* the two lists have room for one more entry (model bound)
Room == Len(work) + Len(processing) < MaxLen

\* EXISTS lock:range:r
Exists(r) == r \in DOMAIN lock

\* SET lock:range:r 1 EX leaseTTL
SetEx(r) == [x \in (DOMAIN lock) \cup {r} |-> IF x = r THEN LeaseTTL ELSE lock[x]]

MutExpire(r) == SetEx(r)

\* EXPIRE lock:range:r leaseTTL : refreshes an existing key only
Expire(r) == IF r \in DOMAIN lock THEN [lock EXCEPT ![r] = LeaseTTL] ELSE lock

\* DEL lock:range:r
Del(r) == [x \in (DOMAIN lock) \ {r} |-> lock[x]]

\* ---------------------------------------------------------------- Init
\* no seed call is in progress in any Seeder process
SeedersInit == sd = [s \in Seeders |-> [pc |-> "idle", target |-> Null, next |-> Null]]

\* the options main passes to the Queue; no seed call made yet
OptionsInit ==
  sq = [batchSize |-> BatchSize, minBlockNumber |-> MinBlock,
        target |-> Null, lastQueuedBefore |-> Null, workBefore |-> <<>>]

\* empty tables
EmptyDb == [blocks |-> {}, txs |-> {}, logs |-> {}]

StoreInit == db = EmptyDb /\ lastSave = NoSave /\ committed = {}

\* no save call in progress: the pool's client is not checked out
SaveIdle ==
  [pc |-> "idle", blocks |-> <<>>, txs |-> <<>>, logs |-> <<>>,
   before |-> EmptyDb, tx |-> EmptyDb, err |-> "none", at |-> "none",
   outcome |-> "none", held |-> FALSE]

\* no fetchAndTransform task started
FetchIdle == [pc |-> "idle", outer |-> 0, attempt |-> 0, calls |-> 0, slept |-> 0]

\* no fetch call made: attempt of Fetcher.fetch, the value Math.random()
\* gave (in units of 1 / RandomSteps) and the delays slept so far
BackoffIdle == [pc |-> "idle", attempt |-> 0, delays |-> <<>>]

\* no processRange under way: tasks running and waiting behind the pLimit
\* of the current processRange call (active, queued), and behind the
\* limiters of earlier calls that threw (oactive, oqueued)
LimiterIdle == [active |-> 0, queued |-> 0, oactive |-> 0, oqueued |-> 0]

\* no request task started: per task its position and the admissions and
\* requests it has made; eth_blockNumber requests sent so far
RpcIdle ==
  [task |-> [c \in Callers |-> [pc |-> "idle", granted |-> 0, sent |-> 0]],
   tips |-> 0]

\* start() has set isRunning on every worker; no save, no fetch task and no
\* second recoverZombies call in progress
RunInit ==
  /\ running = [w \in Workers |-> TRUE]
  /\ sv = SaveIdle
  /\ ft = [h \in MinBlock..MaxTip |-> FetchIdle]
  /\ jan2 = [pc |-> "idle", rest |-> <<>>]
  /\ bo = BackoffIdle
  /\ pl = [w \in Workers |-> LimiterIdle]
  /\ rpc = RpcIdle

\* workers, Seeder and Janitor at the start of their routines, no
\* acquireToken call made
IdleInit ==
  /\ pc = [w \in Workers |-> "next"]
  /\ cur = [w \in Workers |-> NoRange]
  /\ heartbeat = [w \in Workers |-> FALSE]
  /\ leaked = [w \in Workers |-> {}]
  /\ throws = 0 /\ crashes = 0 /\ lastAck = Null
  /\ spc = "idle" /\ sTarget = Null /\ sStart = Null /\ sNext = Null
  /\ seeds = 0
  /\ jpc = "idle" /\ jrest = <<>> /\ scans = 0
  /\ rlLog = {} /\ rlTtl = 0 /\ rlTwin = {} /\ rlTwinTtl = 0
  /\ clock = 0
  /\ sampled = [c \in Callers |-> NoSample]
  /\ nextId = 0 /\ admitted = <<>> /\ lastRes = <<Null, Null>>

Init ==
  /\ work = <<>> /\ processing = <<>> /\ lock = <<>>
  /\ lastQueued = Null /\ lastProcessed = Null /\ store = {}
  /\ IdleInit
  /\ pushed = [h \in MinBlock..MaxTip |-> 0]
  /\ seeded = {}
  /\ SeedersInit /\ OptionsInit /\ maxRetries = MaxRetries /\ StoreInit /\ RunInit

\* ------------------------------------------------------ Queue.seed
\* start = lastQueued + 1 if the key is set, else options.minBlockNumber
MutStartBlock(lq, minBlockNumber) == minBlockNumber

StartBlock(lq, minBlockNumber) == IF lq # Null THEN lq + 1 ELSE minBlockNumber

SeedStartBlock(lq) == StartBlock(lq, MinBlock)

\* the early return of seed: everything up to the target is queued
MutSeedReturnsEarly(start, targetBlock) == FALSE

SeedReturnsEarly(start, targetBlock) == start > targetBlock

\* LLEN x2 (logged only), getLastQueued and the early-return test.
\* sTarget keeps the target of a call that returned early.
SeedStart(t) ==
  /\ spc = "idle" /\ seeds < MaxSeeds
  /\ seeds' = seeds + 1
  /\ LET start == SeedStartBlock(lastQueued) IN
       IF SeedReturnsEarly(start, t)
         THEN /\ sTarget' = t
              /\ UNCHANGED <<spc, sStart, sNext>>
         ELSE /\ spc' = IF start <= t THEN "push" ELSE "set"
              /\ sTarget' = t /\ sStart' = start /\ sNext' = start
  /\ UNCHANGED <<queueVars, workerVars, pushed, seeded, janVars, rateVars, auxVars>>

\* end of the batch that starts at start (addBatches loop body)
MutBatchEndOf(start, toBlock, batchSize) == start + batchSize - 1

BatchEndOf(start, toBlock, batchSize) ==
  IF start + batchSize - 1 > toBlock THEN toBlock ELSE start + batchSize - 1

BatchEnd(start, toBlock) == BatchEndOf(start, toBlock, BatchSize)

\* the range strings the addBatches loop pushes, in order
RECURSIVE AddBatches(_, _, _)
AddBatches(fromBlock, toBlock, batchSize) ==
  IF fromBlock > toBlock THEN <<>>
  ELSE <<RangeStr(fromBlock, BatchEndOf(fromBlock, toBlock, batchSize))>>
         \o AddBatches(fromBlock + batchSize, toBlock, batchSize)

\* one RPUSH of the addBatches pipeline
SeedRpush ==
  /\ spc = "push" /\ Room
  /\ LET end == BatchEnd(sNext, sTarget)
         rangeStr == RangeStr(sNext, end) IN
       /\ work' = RPush(work, rangeStr)
       /\ pushed' = [h \in DOMAIN pushed |->
                       IF h \in sNext..end THEN pushed[h] + 1 ELSE pushed[h]]
       /\ seeded' = seeded \cup {rangeStr}
  /\ sNext' = sNext + BatchSize
  /\ spc' = IF sNext + BatchSize <= sTarget THEN "push" ELSE "set"
  /\ UNCHANGED <<processing, lock, lastQueued, lastProcessed, store,
                 workerVars, sTarget, sStart, seeds, janVars, rateVars, auxVars>>

\* setLastQueued(targetBlock)
SeedSetLastQueued ==
  /\ spc = "set"
  /\ lastQueued' = sTarget
  /\ spc' = "idle" /\ sTarget' = Null /\ sStart' = Null /\ sNext' = Null
  /\ UNCHANGED <<work, processing, lock, lastProcessed, store,
                 workerVars, seeds, pushed, seeded, janVars, rateVars, auxVars>>

\* the supervisor dies after pipeline.exec() and before setLastQueued, and
\* is started again
SeederCrash ==
  /\ spc = "set"
  /\ spc' = "idle" /\ sTarget' = Null /\ sStart' = Null /\ sNext' = Null
  /\ UNCHANGED <<queueVars, workerVars, seeds, pushed, seeded, janVars, rateVars, auxVars>>

\* ------------------------------------------------------ Queue.next
\* while (this.isRunning): where the loop goes when an iteration has ended
LoopTop(w) == IF running[w] THEN "next" ELSE "exited"

\* BLMOVE queue:work queue:processing LEFT RIGHT 0
MutNextBlmove(w) ==
  /\ pc[w] = "next" /\ work # <<>>
  /\ processing' = RPush(processing, work[Len(work)])
  /\ work' = SubSeq(work, 1, Len(work) - 1)
  /\ cur' = [cur EXCEPT ![w] = ParseRange(work[Len(work)])]
  /\ pc' = [pc EXCEPT ![w] = "lease"]
  /\ UNCHANGED <<lock, lastQueued, lastProcessed, store, heartbeat, leaked, histVars,
                 seedVars, janVars, rateVars, auxVars>>

NextBlmove(w) ==
  /\ pc[w] = "next" /\ work # <<>>
  /\ processing' = RPush(processing, Head(work))
  /\ work' = Tail(work)
  /\ cur' = [cur EXCEPT ![w] = ParseRange(Head(work))]
  /\ pc' = [pc EXCEPT ![w] = "lease"]
  /\ UNCHANGED <<lock, lastQueued, lastProcessed, store, heartbeat, leaked, histVars,
                 seedVars, janVars, rateVars, auxVars>>

\* SET lock:range:r 1 EX leaseTTL; next() returns and start() arms the
\* heartbeat interval
NextSetLease(w) ==
  /\ pc[w] = "lease"
  /\ lock' = SetEx(cur[w])
  /\ heartbeat' = [heartbeat EXCEPT ![w] = TRUE]
  /\ pc' = [pc EXCEPT ![w] = "process"]
  /\ UNCHANGED <<work, processing, lastQueued, lastProcessed, store, cur, leaked, histVars,
                 seedVars, janVars, rateVars, auxVars>>

\* ------------------------------------------------ Indexer.processRange
\* the heights of r for which Fetcher.fetch returned records: its retry
\* loop runs while attempt < maxRetries, so with maxRetries = 0 it returns
\* undefined at once and processRange filters the result away
Fetched(r) == IF maxRetries > 0 THEN Heights(r) ELSE {}

\* no fetch threw; database.save committed the blocks gathered (save is
\* skipped when there are none); then clearInterval
ProcessOk(w) ==
  /\ pc[w] = "process"
  /\ store' = store \cup Fetched(cur[w])
  /\ heartbeat' = [heartbeat EXCEPT ![w] = FALSE]
  /\ pc' = [pc EXCEPT ![w] = "c_lrem"]
  /\ UNCHANGED <<work, processing, lock, lastQueued, lastProcessed, cur, leaked, histVars,
                 seedVars, janVars, rateVars, auxVars>>

\* a fetch exhausted its attempts or save rolled back: control enters the
\* catch block, which never clears the interval created in the try block
ProcessThrow(w) ==
  /\ pc[w] = "process" /\ throws < MaxThrows
  /\ maxRetries > 0
  /\ throws' = throws + 1
  /\ heartbeat' = [heartbeat EXCEPT ![w] = FALSE]
  /\ leaked' = [leaked EXCEPT ![w] = @ \cup {cur[w]}]
  /\ pc' = [pc EXCEPT ![w] = "f_lrem"]
  /\ UNCHANGED <<queueVars, cur, crashes, lastAck, seedVars, janVars, rateVars, auxVars>>

\* -------------------------------------------------- Queue.complete
CompleteLrem(w) ==
  /\ pc[w] = "c_lrem"
  /\ processing' = LRem1(processing, RangeStr(cur[w][1], cur[w][2]))
  /\ pc' = [pc EXCEPT ![w] = "c_del"]
  /\ UNCHANGED <<work, lock, lastQueued, lastProcessed, store, cur, heartbeat, leaked, histVars,
                 seedVars, janVars, rateVars, auxVars>>

MutCompleteDel(w) ==
  /\ pc[w] = "c_del"
  /\ lock' = lock
  /\ pc' = [pc EXCEPT ![w] = "c_update"]
  /\ UNCHANGED <<work, processing, lastQueued, lastProcessed, store, cur, heartbeat, leaked, histVars,
                 seedVars, janVars, rateVars, auxVars>>

CompleteDel(w) ==
  /\ pc[w] = "c_del"
  /\ lock' = Del(RangeStr(cur[w][1], cur[w][2]))
  /\ pc' = [pc EXCEPT ![w] = "c_update"]
  /\ UNCHANGED <<work, processing, lastQueued, lastProcessed, store, cur, heartbeat, leaked, histVars,
                 seedVars, janVars, rateVars, auxVars>>

\* the updateLastProcessedIfHigher Lua script
MutUpdateLastProcessedIfHigher(current, newValue) == newValue

UpdateLastProcessedIfHigher(current, newValue) ==
  IF current = Null \/ newValue > current THEN newValue ELSE current

CompleteUpdate(w) ==
  /\ pc[w] = "c_update"
  /\ lastProcessed' = UpdateLastProcessedIfHigher(lastProcessed, cur[w][2])
  /\ lastAck' = cur[w][2]
  /\ pc' = [pc EXCEPT ![w] = LoopTop(w)]
  /\ cur' = [cur EXCEPT ![w] = NoRange]
  /\ UNCHANGED <<work, processing, lock, lastQueued, store, heartbeat, leaked, throws, crashes,
                 seedVars, janVars, rateVars, auxVars>>

\* ------------------------------------------------------ Queue.fail
FailLrem(w) ==
  /\ pc[w] = "f_lrem"
  /\ processing' = LRem1(processing, RangeStr(cur[w][1], cur[w][2]))
  /\ pc' = [pc EXCEPT ![w] = "f_del"]
  /\ UNCHANGED <<work, lock, lastQueued, lastProcessed, store, cur, heartbeat, leaked, histVars,
                 seedVars, janVars, rateVars, auxVars>>

MutFailDel(w) ==
  /\ pc[w] = "f_del"
  /\ lock' = lock
  /\ pc' = [pc EXCEPT ![w] = "f_rpush"]
  /\ UNCHANGED <<work, processing, lastQueued, lastProcessed, store, cur, heartbeat, leaked, histVars,
                 seedVars, janVars, rateVars, auxVars>>

FailDel(w) ==
  /\ pc[w] = "f_del"
  /\ lock' = Del(RangeStr(cur[w][1], cur[w][2]))
  /\ pc' = [pc EXCEPT ![w] = "f_rpush"]
  /\ UNCHANGED <<work, processing, lastQueued, lastProcessed, store, cur, heartbeat, leaked, histVars,
                 seedVars, janVars, rateVars, auxVars>>

\* last command of the pipeline; then sleep(2000) and the next iteration
MutFailRpush(w) ==
  /\ pc[w] = "f_rpush" /\ Room
  /\ work' = <<RangeStr(cur[w][1], cur[w][2])>> \o work
  /\ pc' = [pc EXCEPT ![w] = "next"]
  /\ cur' = [cur EXCEPT ![w] = NoRange]
  /\ UNCHANGED <<processing, lock, lastQueued, lastProcessed, store, heartbeat, leaked, histVars,
                 seedVars, janVars, rateVars, auxVars>>

FailRpush(w) ==
  /\ pc[w] = "f_rpush" /\ Room
  /\ work' = RPush(work, RangeStr(cur[w][1], cur[w][2]))
  /\ pc' = [pc EXCEPT ![w] = LoopTop(w)]
  /\ cur' = [cur EXCEPT ![w] = NoRange]
  /\ UNCHANGED <<processing, lock, lastQueued, lastProcessed, store, heartbeat, leaked, histVars,
                 seedVars, janVars, rateVars, auxVars>>

\* --------------------------------------------- heartbeat and time
\* intervals of worker w that are armed
Timers(w) == leaked[w] \cup (IF heartbeat[w] THEN {cur[w]} ELSE {})

\* intervals of worker w whose callback passes `if (this.isRunning)`
Beating(w) == IF running[w] THEN Timers(w) ELSE {}

\* the setInterval callback: queue.extendLease(from, to), one EXPIRE.
\* On a key that does not exist EXPIRE changes nothing.
ExtendLease(w, r) ==
  /\ r \in Beating(w)
  /\ lock' = Expire(r)
  /\ UNCHANGED <<work, processing, lastQueued, lastProcessed, store, workerVars,
                 seedVars, janVars, rateVars, auxVars>>

\* an armed interval of worker w fires
Heartbeat(w) == \E r \in Beating(w) : ExtendLease(w, r)

\* one heartbeat interval passes: every TTL loses one interval and keys at
\* 0 expire. Every armed interval of a live worker fires once per interval,
\* so a key it covers has been refreshed when the interval ends.
Tick ==
  /\ lock # <<>>
  /\ \A w \in Workers : \A r \in Beating(w) :
        r \in DOMAIN lock => lock[r] = LeaseTTL
  /\ lock' = [r \in {x \in DOMAIN lock : lock[x] > 1} |-> lock[r] - 1]
  /\ UNCHANGED <<work, processing, lastQueued, lastProcessed, store, workerVars,
                 seedVars, janVars, rateVars, auxVars>>

\* the worker thread dies (between commands it has sent; a pipeline that
\* was flushed is still executed by the server)
Crash(w) ==
  /\ pc[w] \in {"lease", "process", "c_lrem", "c_update", "f_lrem"}
  /\ crashes < MaxCrashes
  /\ crashes' = crashes + 1
  /\ pc' = [pc EXCEPT ![w] = "crashed"]
  /\ cur' = [cur EXCEPT ![w] = IF pc[w] = "c_update" THEN NoRange ELSE @]
  /\ heartbeat' = [heartbeat EXCEPT ![w] = FALSE]
  /\ leaked' = [leaked EXCEPT ![w] = {}]
  /\ UNCHANGED <<queueVars, throws, lastAck, seedVars, janVars, rateVars, auxVars>>

\* ------------------------------------------- Queue.recoverZombies
\* LRANGE queue:processing 0 -1
JanLrange ==
  /\ jpc = "idle" /\ processing # <<>>
  /\ jrest' = processing
  /\ jpc' = "exists"
  /\ scans' = IF scans < MaxScans THEN scans + 1 ELSE scans
  /\ UNCHANGED <<queueVars, workerVars, seedVars, rateVars, auxVars>>

\* EXISTS lock:range:r for the next range of the snapshot
JanExists ==
  /\ jpc = "exists"
  /\ IF Exists(Head(jrest))
       THEN /\ jrest' = Tail(jrest)
            /\ jpc' = IF Tail(jrest) = <<>> THEN "idle" ELSE "exists"
       ELSE /\ jpc' = "multi"
            /\ UNCHANGED jrest
  /\ UNCHANGED <<scans, queueVars, workerVars, seedVars, rateVars, auxVars>>

\* MULTI / LREM queue:processing 1 r / RPUSH queue:work r / EXEC
JanMulti ==
  /\ jpc = "multi" /\ (Room \/ Count(processing, Head(jrest)) > 0)
  /\ processing' = LRem1(processing, Head(jrest))
  /\ work' = RPush(work, Head(jrest))
  /\ jrest' = Tail(jrest)
  /\ jpc' = IF Tail(jrest) = <<>> THEN "idle" ELSE "exists"
  /\ UNCHANGED <<scans, lock, lastQueued, lastProcessed, store, workerVars, seedVars, rateVars, auxVars>>

\* the Janitor's setInterval fires
JanitorTick == scans < MaxScans /\ JanLrange

Next ==
  \/ \E t \in MinBlock..MaxTip : SeedStart(t)
  \/ SeedRpush
  \/ SeedSetLastQueued
  \/ SeederCrash
  \/ \E w \in Workers : NextBlmove(w)
  \/ \E w \in Workers : NextSetLease(w)
  \/ \E w \in Workers : ProcessOk(w)
  \/ \E w \in Workers : ProcessThrow(w)
  \/ \E w \in Workers : CompleteLrem(w)
  \/ \E w \in Workers : CompleteDel(w)
  \/ \E w \in Workers : CompleteUpdate(w)
  \/ \E w \in Workers : FailLrem(w)
  \/ \E w \in Workers : FailDel(w)
  \/ \E w \in Workers : FailRpush(w)
  \/ \E w \in Workers : Heartbeat(w)
  \/ Tick
  \/ \E w \in Workers : Crash(w)
  \/ JanitorTick
  \/ JanExists
  \/ JanMulti

Spec == Init /\ [][Next]_vars

\* ------------------------------- Seeder and workers on their own
\* seed (with Seeder restarts) and the workers' next / processRange /
\* complete / fail; no Janitor, no lease expiry, no worker crash
CoreNext ==
  \/ \E t \in MinBlock..MaxTip : SeedStart(t)
  \/ SeedRpush
  \/ SeedSetLastQueued
  \/ SeederCrash
  \/ \E w \in Workers : NextBlmove(w)
  \/ \E w \in Workers : NextSetLease(w)
  \/ \E w \in Workers : ProcessOk(w)
  \/ \E w \in Workers : ProcessThrow(w)
  \/ \E w \in Workers : CompleteLrem(w)
  \/ \E w \in Workers : CompleteDel(w)
  \/ \E w \in Workers : CompleteUpdate(w)
  \/ \E w \in Workers : FailLrem(w)
  \/ \E w \in Workers : FailDel(w)
  \/ \E w \in Workers : FailRpush(w)

SpecCore == Init /\ [][CoreNext]_vars

\* ------------------------------------------- any configured maxRetries
\* the deployment of Init with RPC_MAX_RETRIES drawn
InitFetch ==
  /\ work = <<>> /\ processing = <<>> /\ lock = <<>>
  /\ lastQueued = Null /\ lastProcessed = Null /\ store = {}
  /\ IdleInit
  /\ pushed = [h \in MinBlock..MaxTip |-> 0]
  /\ seeded = {}
  /\ SeedersInit /\ OptionsInit /\ maxRetries \in 0..MaxRetries /\ StoreInit /\ RunInit

SpecFetch == InitFetch /\ [][CoreNext]_vars

\* ------------------------------------------- several Seeder processes
\* Queue.seed as called by Seeder process s, one Redis command per step:
\* LLEN x2 (logged only), GET queue:lastQueued and the early-return test
SeederSeed(s, t) ==
  /\ sd[s].pc = "idle" /\ seeds < MaxSeeds
  /\ seeds' = seeds + 1
  /\ LET start == SeedStartBlock(lastQueued) IN
       sd' = IF SeedReturnsEarly(start, t)
               THEN [sd EXCEPT ![s].target = t]
               ELSE [sd EXCEPT ![s] = [pc |-> "push", target |-> t, next |-> start]]
  /\ UNCHANGED <<queueVars, workerVars, spc, sTarget, sStart, sNext, pushed, seeded,
                 janVars, rateVars, sq, maxRetries, db, lastSave, committed, runVars>>

\* one RPUSH of the addBatches pipeline of Seeder process s
SeederRpush(s) ==
  /\ sd[s].pc = "push" /\ Room
  /\ LET end == BatchEnd(sd[s].next, sd[s].target)
         rangeStr == RangeStr(sd[s].next, end) IN
       /\ work' = RPush(work, rangeStr)
       /\ pushed' = [h \in DOMAIN pushed |->
                       IF h \in sd[s].next..end THEN pushed[h] + 1 ELSE pushed[h]]
       /\ seeded' = seeded \cup {rangeStr}
  /\ sd' = [sd EXCEPT ![s].next = @ + BatchSize,
                      ![s].pc = IF sd[s].next + BatchSize <= sd[s].target
                                  THEN "push" ELSE "set"]
  /\ UNCHANGED <<processing, lock, lastQueued, lastProcessed, store, workerVars,
                 spc, sTarget, sStart, sNext, seeds,
                 janVars, rateVars, sq, maxRetries, db, lastSave, committed, runVars>>

\* setLastQueued(targetBlock) of Seeder process s; seed returns
SeederSetLastQueued(s) ==
  /\ sd[s].pc = "set"
  /\ lastQueued' = sd[s].target
  /\ sd' = [sd EXCEPT ![s].pc = "idle"]
  /\ UNCHANGED <<work, processing, lock, lastProcessed, store, workerVars, seedVars,
                 janVars, rateVars, sq, maxRetries, db, lastSave, committed, runVars>>

SeedersNext ==
  \/ \E s \in Seeders, t \in MinBlock..MaxTip : SeederSeed(s, t)
  \/ \E s \in Seeders : SeederRpush(s)
  \/ \E s \in Seeders : SeederSetLastQueued(s)
  \/ \E w \in Workers : NextBlmove(w)
  \/ \E w \in Workers : NextSetLease(w)
  \/ \E w \in Workers : ProcessOk(w)
  \/ \E w \in Workers : ProcessThrow(w)
  \/ \E w \in Workers : CompleteLrem(w)
  \/ \E w \in Workers : CompleteDel(w)
  \/ \E w \in Workers : CompleteUpdate(w)
  \/ \E w \in Workers : FailLrem(w)
  \/ \E w \in Workers : FailDel(w)
  \/ \E w \in Workers : FailRpush(w)

SpecSeeders == Init /\ [][SeedersNext]_vars

\* ------------------------------------------- a Queue with drawn options
\* a Queue whose options.batchSize and options.minBlockNumber are drawn,
\* either on an empty Redis or resumed with one leased range that ends at
\* lastQueued
InitSeed ==
  /\ \E b \in 1..MaxBatch, m \in 0..MaxMin :
       sq = [batchSize |-> b, minBlockNumber |-> m,
             target |-> Null, lastQueuedBefore |-> Null, workBefore |-> <<>>]
  /\ work = <<>> /\ lastProcessed = Null /\ store = {}
  /\ \/ /\ lastQueued = Null /\ processing = <<>> /\ lock = <<>>
        /\ seeded = {}
     \/ \E k \in sq.minBlockNumber..(MaxMin + 1) :
          /\ k - sq.minBlockNumber + 1 <= sq.batchSize
          /\ lastQueued = k
          /\ processing = <<RangeStr(sq.minBlockNumber, k)>>
          /\ lock = [r \in {RangeStr(sq.minBlockNumber, k)} |-> LeaseTTL]
          /\ seeded = {RangeStr(sq.minBlockNumber, k)}
  /\ pushed = [h \in 0..MaxTarget |->
                 IF \E r \in seeded : h \in Heights(r) THEN 1 ELSE 0]
  /\ IdleInit
  /\ SeedersInit /\ maxRetries = MaxRetries /\ StoreInit /\ RunInit

\* Queue.seed(targetBlock) run to its return by the only client
QueueSeed(t) ==
  /\ seeds < MaxSeeds
  /\ seeds' = seeds + 1
  /\ sq' = [sq EXCEPT !.target = t, !.lastQueuedBefore = lastQueued, !.workBefore = work]
  /\ LET start == StartBlock(lastQueued, sq.minBlockNumber) IN
       IF SeedReturnsEarly(start, t)
         THEN UNCHANGED <<work, lastQueued, pushed, seeded>>
         ELSE LET batches == AddBatches(start, t, sq.batchSize) IN
              /\ work' = work \o batches
              /\ lastQueued' = t
              /\ pushed' = [h \in DOMAIN pushed |->
                    pushed[h] + Cardinality({i \in 1..Len(batches) : h \in Heights(batches[i])})]
              /\ seeded' = seeded \cup Elems(batches)
  /\ UNCHANGED <<processing, lock, lastProcessed, store, workerVars,
                 spc, sTarget, sStart, sNext, janVars, rateVars,
                 sd, maxRetries, db, lastSave, committed, runVars>>

SeedNext == \E t \in 0..MaxTarget : QueueSeed(t)

SpecSeed == InitSeed /\ [][SeedNext]_vars

\* ------------------------------------------- the rate limiter
\* ZREMRANGEBYSCORE key -inf max : drops every entry with score <= max
ZRemRangeByScore(log, max) == {e \in log : e[1] > max}

\* ZADD key score member: a sorted set holds a member once, so adding a
\* member it already holds only changes that member's score
ZAdd(log, score, member) == {e \in log : e[2] # member} \cup {<<score, member>>}

\* randomUUID(): the n-th call gives a value no earlier call gave
MutRandomUUID(n) == 0

RandomUUID(n) == n

\* the acquireRateLimitToken Lua script on a log whose PEXPIRE has ttl ms
\* left, with ARGV = window, limit, now, unique_id; gives <<log, ttl, result>>.
\* A sorted set emptied by ZREMRANGEBYSCORE is deleted with its expiry.
MutAcquireScript(log, ttl, window, limit, now, uniqueId) ==
  <<log \cup {<<now, uniqueId>>}, window, 1>>

AcquireScript(log, ttl, window, limit, now, uniqueId) ==
  LET kept == ZRemRangeByScore(log, now - window)
      count == Cardinality(kept)
  IN IF count < limit
       THEN <<ZAdd(kept, now, uniqueId), window, 1>>
       ELSE <<kept, IF kept = {} THEN 0 ELSE ttl, 0>>

\* acquireToken, first half: const now = Date.now(); uniqueId = randomUUID().
\* The worker's clock reads the coordinator's time in the run that is
\* measured, and is ahead of it by skew in the twin run.
AcquireSample(c, skew) ==
  /\ sampled[c] = NoSample /\ nextId < MaxCalls
  /\ sampled' = [sampled EXCEPT ![c] = <<clock, clock + skew, RandomUUID(nextId)>>]
  /\ nextId' = nextId + 1
  /\ UNCHANGED <<queueVars, workerVars, seedVars, janVars, auxVars,
                 rlLog, rlTtl, rlTwin, rlTwinTtl, clock, admitted, lastRes>>

\* acquireToken, second half: the script runs on the coordinator (at its
\* time `clock`) with the timestamp the caller sampled
AcquireRun(c) ==
  /\ sampled[c] # NoSample
  /\ LET a == AcquireScript(rlLog, rlTtl, WindowMs, Limit, sampled[c][1], sampled[c][3])
         b == AcquireScript(rlTwin, rlTwinTtl, WindowMs, Limit, sampled[c][2], sampled[c][3])
     IN /\ rlLog' = a[1] /\ rlTtl' = a[2]
        /\ rlTwin' = b[1] /\ rlTwinTtl' = b[2]
        /\ lastRes' = <<a[3], b[3]>>
        /\ admitted' = IF a[3] = 1 THEN Append(admitted, clock) ELSE admitted
  /\ sampled' = [sampled EXCEPT ![c] = NoSample]
  /\ UNCHANGED <<queueVars, workerVars, seedVars, janVars, auxVars, clock, nextId>>

\* one millisecond passes on the coordinator; a key whose PEXPIRE runs out
\* is deleted
ClockTick ==
  /\ clock < MaxClock
  /\ clock' = clock + 1
  /\ rlTtl' = IF rlTtl > 0 THEN rlTtl - 1 ELSE 0
  /\ rlLog' = IF rlTtl = 1 THEN {} ELSE rlLog
  /\ rlTwinTtl' = IF rlTwinTtl > 0 THEN rlTwinTtl - 1 ELSE 0
  /\ rlTwin' = IF rlTwinTtl = 1 THEN {} ELSE rlTwin
  /\ UNCHANGED <<queueVars, workerVars, seedVars, janVars, auxVars,
                 sampled, nextId, admitted, lastRes>>

RateNext ==
  \/ \E c \in Callers, skew \in 0..MaxSkew : AcquireSample(c, skew)
  \/ \E c \in Callers : AcquireRun(c)
  \/ ClockTick

SpecRate == Init /\ [][RateNext]_vars

\* ------------------------------------------- a seeded queue under fair scheduling
Ranges == {<<a, b>> : a \in MinBlock..MaxTip, b \in MinBlock..MaxTip}

\* the state after seed(minBlockNumber) has returned on an empty store;
\* the chain tip does not move afterwards
InitLive ==
  /\ work = <<RangeStr(MinBlock, MinBlock)>> /\ processing = <<>> /\ lock = <<>>
  /\ lastQueued = MinBlock /\ lastProcessed = Null /\ store = {}
  /\ pc = [w \in Workers |-> "next"]
  /\ cur = [w \in Workers |-> NoRange]
  /\ heartbeat = [w \in Workers |-> FALSE]
  /\ leaked = [w \in Workers |-> {}]
  /\ throws = 0 /\ crashes = 0 /\ lastAck = Null
  /\ spc = "idle" /\ sTarget = Null /\ sStart = Null /\ sNext = Null
  /\ seeds = MaxSeeds
  /\ pushed = [h \in MinBlock..MaxTip |-> IF h = MinBlock THEN 1 ELSE 0]
  /\ seeded = {RangeStr(MinBlock, MinBlock)}
  /\ jpc = "idle" /\ jrest = <<>> /\ scans = 0
  /\ rlLog = {} /\ rlTtl = 0 /\ rlTwin = {} /\ rlTwinTtl = 0
  /\ clock = 0
  /\ sampled = [c \in Callers |-> NoSample]
  /\ nextId = 0 /\ admitted = <<>> /\ lastRes = <<Null, Null>>
  /\ SeedersInit /\ OptionsInit /\ maxRetries = MaxRetries /\ StoreInit /\ RunInit

LiveNext ==
  \/ \E w \in Workers : NextBlmove(w)
  \/ \E w \in Workers : NextSetLease(w)
  \/ \E w \in Workers : ProcessOk(w)
  \/ \E w \in Workers : ProcessThrow(w)
  \/ \E w \in Workers : CompleteLrem(w)
  \/ \E w \in Workers : CompleteDel(w)
  \/ \E w \in Workers : CompleteUpdate(w)
  \/ \E w \in Workers : FailLrem(w)
  \/ \E w \in Workers : FailDel(w)
  \/ \E w \in Workers : FailRpush(w)
  \/ \E w \in Workers : Heartbeat(w)
  \/ Tick
  \/ \E w \in Workers : Crash(w)
  \/ JanLrange
  \/ JanExists
  \/ JanMulti

\* the Janitor's interval keeps firing, time passes, armed intervals fire,
\* and a live worker takes its next step; failures and crashes are not forced
Fairness ==
  /\ WF_vars(JanLrange) /\ WF_vars(JanExists) /\ WF_vars(JanMulti)
  /\ WF_vars(Tick)
  /\ \A w \in Workers :
       /\ WF_vars(NextBlmove(w)) /\ WF_vars(NextSetLease(w))
       /\ WF_vars(ProcessOk(w) \/ ProcessThrow(w))
       /\ WF_vars(CompleteLrem(w)) /\ WF_vars(CompleteDel(w)) /\ WF_vars(CompleteUpdate(w))
       /\ WF_vars(FailLrem(w)) /\ WF_vars(FailDel(w)) /\ WF_vars(FailRpush(w))
       /\ \A r \in Ranges : WF_vars(ExtendLease(w, r))

SpecLive == InitLive /\ [][LiveNext]_vars /\ Fairness

\* ------------------------------------------- no failure but worker crashes
\* after seed(minBlockNumber): no further seeding, every fetch and save
\* succeeds, workers may crash (fewer than there are workers)
ConvergeNext ==
  \/ \E w \in Workers : NextBlmove(w)
  \/ \E w \in Workers : NextSetLease(w)
  \/ \E w \in Workers : ProcessOk(w)
  \/ \E w \in Workers : CompleteLrem(w)
  \/ \E w \in Workers : CompleteDel(w)
  \/ \E w \in Workers : CompleteUpdate(w)
  \/ \E w \in Workers : Heartbeat(w)
  \/ Tick
  \/ \E w \in Workers : Crash(w)
  \/ JanLrange
  \/ JanExists
  \/ JanMulti

\* the Janitor's interval keeps firing, time passes, armed intervals fire
\* and a live worker takes its next step
ConvergeFairness ==
  /\ WF_vars(JanLrange) /\ WF_vars(JanExists) /\ WF_vars(JanMulti)
  /\ WF_vars(Tick)
  /\ \A w \in Workers :
       /\ WF_vars(NextBlmove(w)) /\ WF_vars(NextSetLease(w))
       /\ WF_vars(ProcessOk(w))
       /\ WF_vars(CompleteLrem(w)) /\ WF_vars(CompleteDel(w)) /\ WF_vars(CompleteUpdate(w))
       /\ \A r \in Ranges : WF_vars(ExtendLease(w, r))

SpecConverge == InitLive /\ [][ConvergeNext]_vars /\ ConvergeFairness

\* ------------------------------------------- a range that always fails
\* the range whose fetch fails on every attempt
Poison == RangeStr(MinBlock, MinBlock)

\* one worker runs; seed(minBlockNumber) has returned, the Seeder keeps
\* following the tip
InitPoison ==
  /\ work = <<Poison>> /\ processing = <<>> /\ lock = <<>>
  /\ lastQueued = MinBlock /\ lastProcessed = Null /\ store = {}
  /\ pc = [w \in Workers |-> IF w = 1 THEN "next" ELSE "stopped"]
  /\ cur = [w \in Workers |-> NoRange]
  /\ heartbeat = [w \in Workers |-> FALSE]
  /\ leaked = [w \in Workers |-> {}]
  /\ throws = 0 /\ crashes = 0 /\ lastAck = Null
  /\ spc = "idle" /\ sTarget = Null /\ sStart = Null /\ sNext = Null
  /\ seeds = 0
  /\ pushed = [h \in MinBlock..MaxTip |-> IF h = MinBlock THEN 1 ELSE 0]
  /\ seeded = {Poison}
  /\ jpc = "idle" /\ jrest = <<>> /\ scans = 0
  /\ rlLog = {} /\ rlTtl = 0 /\ rlTwin = {} /\ rlTwinTtl = 0
  /\ clock = 0
  /\ sampled = [c \in Callers |-> NoSample]
  /\ nextId = 0 /\ admitted = <<>> /\ lastRes = <<Null, Null>>
  /\ SeedersInit /\ OptionsInit /\ maxRetries = MaxRetries /\ StoreInit /\ RunInit

\* processRange of a range other than the poison one: fetched and saved
ProcessGood(w) == cur[w] # Poison /\ ProcessOk(w)

\* processRange of the poison range: a fetch exhausts its attempts, every
\* time; control enters the catch block
ProcessPoison(w) ==
  /\ pc[w] = "process" /\ cur[w] = Poison
  /\ heartbeat' = [heartbeat EXCEPT ![w] = FALSE]
  /\ leaked' = [leaked EXCEPT ![w] = @ \cup {cur[w]}]
  /\ pc' = [pc EXCEPT ![w] = "f_lrem"]
  /\ UNCHANGED <<queueVars, cur, histVars, seedVars, janVars, rateVars, auxVars>>

PoisonNext ==
  \/ \E t \in MinBlock..MaxTip : SeedStart(t)
  \/ SeedRpush
  \/ SeedSetLastQueued
  \/ \E w \in Workers : NextBlmove(w)
  \/ \E w \in Workers : NextSetLease(w)
  \/ \E w \in Workers : ProcessGood(w)
  \/ \E w \in Workers : ProcessPoison(w)
  \/ \E w \in Workers : CompleteLrem(w)
  \/ \E w \in Workers : CompleteDel(w)
  \/ \E w \in Workers : CompleteUpdate(w)
  \/ \E w \in Workers : FailLrem(w)
  \/ \E w \in Workers : FailDel(w)
  \/ \E w \in Workers : FailRpush(w)
  \/ \E w \in Workers : Heartbeat(w)
  \/ Tick

\* a live worker takes its next step
PoisonFairness ==
  \A w \in Workers :
    /\ WF_vars(NextBlmove(w)) /\ WF_vars(NextSetLease(w))
    /\ WF_vars(ProcessGood(w)) /\ WF_vars(ProcessPoison(w))
    /\ WF_vars(CompleteLrem(w)) /\ WF_vars(CompleteDel(w)) /\ WF_vars(CompleteUpdate(w))
    /\ WF_vars(FailLrem(w)) /\ WF_vars(FailDel(w)) /\ WF_vars(FailRpush(w))

SpecPoison == InitPoison /\ [][PoisonNext]_vars /\ PoisonFairness

\* ------------------------------------------- Database.save
Hashes == 1..NumHashes

\* the records transformData makes of the block the chain shows at height h
\* when it is the v-th candidate for that height: the block row, and one
\* transaction with one log
BlockRecordOf(h, v) == [number |-> h, hash |-> <<h, v>>]
TxRecordOf(h, v) ==
  [hash |-> <<h, v, 0>>, block_number |-> h, block_hash |-> <<h, v>>]
LogRecordOf(h, v) ==
  [transaction_hash |-> <<h, v, 0>>, log_index |-> 0, block_number |-> h]

\* blocks: ON CONFLICT (number) DO UPDATE SET number = NULL
\*         WHERE blocks.hash IS DISTINCT FROM EXCLUDED.hash
\* the update violates NOT NULL of the primary key: SQLSTATE 23502
MutBlockConflict(existing, proposed) == "skip"

BlockConflict(existing, proposed) ==
  IF existing.hash # proposed.hash THEN "23502" ELSE "skip"

\* transactions: ON CONFLICT (hash) DO NOTHING
MutTxConflict(existing, proposed) == "23505"

TxConflict(existing, proposed) == "skip"

\* INSERT INTO blocks of one chunk; mine are the numbers this statement has
\* inserted (DO UPDATE cannot touch a row the same command inserted: 21000).
\* hash is UNIQUE and is not the arbiter of ON CONFLICT: 23505.
RECURSIVE InsertBlocks(_, _, _)
InsertBlocks(rows, batch, mine) ==
  IF batch = <<>> THEN <<rows, "ok">>
  ELSE LET b == Head(batch)
           hit == {e \in rows : e.number = b.number}
       IN IF hit # {}
            THEN IF b.number \in mine THEN <<rows, "21000">>
                 ELSE LET c == BlockConflict(CHOOSE e \in hit : TRUE, b)
                      IN IF c = "skip" THEN InsertBlocks(rows, Tail(batch), mine)
                                       ELSE <<rows, c>>
            ELSE IF \E e \in rows : e.hash = b.hash THEN <<rows, "23505">>
            ELSE InsertBlocks(rows \cup {b}, Tail(batch), mine \cup {b.number})

\* INSERT INTO transactions; block_number REFERENCES blocks(number): 23503
RECURSIVE InsertTxs(_, _, _)
InsertTxs(rows, blockRows, batch) ==
  IF batch = <<>> THEN <<rows, "ok">>
  ELSE LET t == Head(batch)
           hit == {e \in rows : e.hash = t.hash}
       IN IF hit # {}
            THEN LET c == TxConflict(CHOOSE e \in hit : TRUE, t)
                 IN IF c = "skip" THEN InsertTxs(rows, blockRows, Tail(batch))
                                  ELSE <<rows, c>>
            ELSE IF ~\E e \in blockRows : e.number = t.block_number
                   THEN <<rows, "23503">>
            ELSE InsertTxs(rows \cup {t}, blockRows, Tail(batch))

\* INSERT INTO logs ... ON CONFLICT (transaction_hash, log_index) DO NOTHING;
\* transaction_hash and block_number are foreign keys
RECURSIVE InsertLogs(_, _, _, _)
InsertLogs(rows, txRows, blockRows, batch) ==
  IF batch = <<>> THEN <<rows, "ok">>
  ELSE LET l == Head(batch)
       IN IF \E e \in rows : e.transaction_hash = l.transaction_hash
                              /\ e.log_index = l.log_index
            THEN InsertLogs(rows, txRows, blockRows, Tail(batch))
            ELSE IF \/ ~\E e \in txRows : e.hash = l.transaction_hash
                    \/ ~\E e \in blockRows : e.number = l.block_number
                   THEN <<rows, "23503">>
            ELSE InsertLogs(rows \cup {l}, txRows, blockRows, Tail(batch))

\* the catch block of save: ROLLBACK, then 23502 becomes Error('ReorgDetected')
\* and any other error is thrown as it is
Thrown(code) == IF code = "23502" THEN "ReorgDetected" ELSE code

\* Database.save on tables d: BEGIN, the three inserts, COMMIT or ROLLBACK;
\* gives <<tables, outcome>>. Arrays here are shorter than one chunk.
Save(d, blocks, txs, logs) ==
  LET b == InsertBlocks(d.blocks, blocks, {})
  IN IF b[2] # "ok" THEN <<d, Thrown(b[2])>>
     ELSE LET t == InsertTxs(d.txs, b[1], txs)
          IN IF t[2] # "ok" THEN <<d, Thrown(t[2])>>
             ELSE LET l == InsertLogs(d.logs, t[1], b[1], logs)
                  IN IF l[2] # "ok" THEN <<d, Thrown(l[2])>>
                     ELSE <<[blocks |-> b[1], txs |-> t[1], logs |-> l[1]], "ok">>

\* processRange with the store behind it: every height of the range is
\* fetched (the chain shows candidate hv[h] at height h), the records are
\* gathered in height order and saved in one transaction. A commit leads to
\* clearInterval and complete, a throw to the catch block.
ProcessSave(w, hv) ==
  /\ pc[w] = "process"
  /\ LET from == cur[w][1]
         n == cur[w][2] - cur[w][1] + 1
         blocks == [i \in 1..n |-> BlockRecordOf(from + i - 1, hv[from + i - 1])]
         txs == [i \in 1..n |-> TxRecordOf(from + i - 1, hv[from + i - 1])]
         logs == [i \in 1..n |-> LogRecordOf(from + i - 1, hv[from + i - 1])]
         res == Save(db, blocks, txs, logs)
     IN /\ db' = res[1]
        /\ lastSave' = [blocks |-> blocks, txs |-> txs, logs |-> logs,
                        outcome |-> res[2], range |-> cur[w]]
        /\ IF res[2] = "ok"
             THEN /\ committed' = committed \cup {<<blocks, txs, logs>>}
                  /\ store' = store \cup Heights(cur[w])
                  /\ pc' = [pc EXCEPT ![w] = "c_lrem"]
                  /\ UNCHANGED leaked
             ELSE /\ leaked' = [leaked EXCEPT ![w] = @ \cup {cur[w]}]
                  /\ pc' = [pc EXCEPT ![w] = "f_lrem"]
                  /\ UNCHANGED <<committed, store>>
  /\ heartbeat' = [heartbeat EXCEPT ![w] = FALSE]
  /\ UNCHANGED <<work, processing, lock, lastQueued, lastProcessed, cur, histVars,
                 seedVars, janVars, rateVars, sd, sq, maxRetries, runVars>>

DbNext ==
  \/ \E t \in MinBlock..MaxTip : SeedStart(t)
  \/ SeedRpush
  \/ SeedSetLastQueued
  \/ SeederCrash
  \/ \E w \in Workers : NextBlmove(w)
  \/ \E w \in Workers : NextSetLease(w)
  \/ \E w \in Workers : \E hv \in [MinBlock..MaxTip -> Hashes] : ProcessSave(w, hv)
  \/ \E w \in Workers : CompleteLrem(w)
  \/ \E w \in Workers : CompleteDel(w)
  \/ \E w \in Workers : CompleteUpdate(w)
  \/ \E w \in Workers : FailLrem(w)
  \/ \E w \in Workers : FailDel(w)
  \/ \E w \in Workers : FailRpush(w)

SpecDb == Init /\ [][DbNext]_vars

\* ------------------------------------------- save, statement by statement
\* Rows the open transaction has written are in sv.tx and are visible to
\* that transaction alone; other sessions read db. sv.before is a history
\* field: the tables when the call was made.
RangesOfSave == {<<a, b>> \in (MinBlock..MaxTip) \X (MinBlock..MaxTip) : a <= b}

\* const client = await this.pool.connect(), with the arrays processRange
\* gathers for range r when the chain shows candidate hv[h] at height h
SaveConnect(r, hv) ==
  /\ sv.pc \in {"idle", "done"}
  /\ LET from == r[1]
         n == r[2] - r[1] + 1
     IN sv' = [pc |-> "begin",
               blocks |-> [i \in 1..n |-> BlockRecordOf(from + i - 1, hv[from + i - 1])],
               txs |-> [i \in 1..n |-> TxRecordOf(from + i - 1, hv[from + i - 1])],
               logs |-> [i \in 1..n |-> LogRecordOf(from + i - 1, hv[from + i - 1])],
               before |-> db, tx |-> db, err |-> "none", at |-> "none",
               outcome |-> "none", held |-> TRUE]
  /\ UNCHANGED <<queueVars, workerVars, seedVars, janVars, rateVars,
                 sd, sq, maxRetries, db, lastSave, committed, running, ft, jan2, taskVars>>

\* client.query('BEGIN')
SaveBegin ==
  /\ sv.pc = "begin"
  /\ sv' = [sv EXCEPT !.pc = "blocks"]
  /\ UNCHANGED <<queueVars, workerVars, seedVars, janVars, rateVars,
                 sd, sq, maxRetries, db, lastSave, committed, running, ft, jan2, taskVars>>

\* the INSERT INTO blocks loop; a rejected statement enters the catch block
SaveBlocks ==
  /\ sv.pc = "blocks"
  /\ LET b == InsertBlocks(sv.tx.blocks, sv.blocks, {})
     IN sv' = IF b[2] = "ok"
                THEN [sv EXCEPT !.tx.blocks = b[1], !.pc = "txs"]
                ELSE [sv EXCEPT !.err = b[2], !.at = "blocks", !.pc = "catch"]
  /\ UNCHANGED <<queueVars, workerVars, seedVars, janVars, rateVars,
                 sd, sq, maxRetries, db, lastSave, committed, running, ft, jan2, taskVars>>

\* the INSERT INTO transactions loop
SaveTxs ==
  /\ sv.pc = "txs"
  /\ LET t == InsertTxs(sv.tx.txs, sv.tx.blocks, sv.txs)
     IN sv' = IF t[2] = "ok"
                THEN [sv EXCEPT !.tx.txs = t[1], !.pc = "logs"]
                ELSE [sv EXCEPT !.err = t[2], !.at = "txs", !.pc = "catch"]
  /\ UNCHANGED <<queueVars, workerVars, seedVars, janVars, rateVars,
                 sd, sq, maxRetries, db, lastSave, committed, running, ft, jan2, taskVars>>

\* the INSERT INTO logs loop
SaveLogs ==
  /\ sv.pc = "logs"
  /\ LET l == InsertLogs(sv.tx.logs, sv.tx.txs, sv.tx.blocks, sv.logs)
     IN sv' = IF l[2] = "ok"
                THEN [sv EXCEPT !.tx.logs = l[1], !.pc = "commit"]
                ELSE [sv EXCEPT !.err = l[2], !.at = "logs", !.pc = "catch"]
  /\ UNCHANGED <<queueVars, workerVars, seedVars, janVars, rateVars,
                 sd, sq, maxRetries, db, lastSave, committed, running, ft, jan2, taskVars>>

\* a statement is rejected for a reason outside the data (57014: the
\* statement was cancelled): what it wrote is undone, control enters catch
SaveQueryFails ==
  /\ sv.pc \in {"begin", "blocks", "txs", "logs"}
  /\ sv' = [sv EXCEPT !.err = "57014", !.at = sv.pc, !.pc = "catch"]
  /\ UNCHANGED <<queueVars, workerVars, seedVars, janVars, rateVars,
                 sd, sq, maxRetries, db, lastSave, committed, running, ft, jan2, taskVars>>

\* client.query('COMMIT'): the transaction's rows become the tables
SaveCommit ==
  /\ sv.pc = "commit"
  /\ db' = sv.tx
  /\ sv' = [sv EXCEPT !.outcome = "ok", !.pc = "finally"]
  /\ UNCHANGED <<queueVars, workerVars, seedVars, janVars, rateVars,
                 sd, sq, maxRetries, lastSave, committed, running, ft, jan2, taskVars>>

MutSaveRollback ==
  /\ sv.pc = "catch"
  /\ db' = sv.tx
  /\ sv' = [sv EXCEPT !.outcome = Thrown(sv.err), !.pc = "finally"]
  /\ UNCHANGED <<queueVars, workerVars, seedVars, janVars, rateVars,
                 sd, sq, maxRetries, lastSave, committed, running, ft, jan2, taskVars>>

\* catch: client.query('ROLLBACK') discards the transaction's rows, then the
\* error (or Error('ReorgDetected')) is thrown
SaveRollback ==
  /\ sv.pc = "catch"
  /\ db' = db
  /\ sv' = [sv EXCEPT !.tx = db, !.outcome = Thrown(sv.err), !.pc = "finally"]
  /\ UNCHANGED <<queueVars, workerVars, seedVars, janVars, rateVars,
                 sd, sq, maxRetries, lastSave, committed, running, ft, jan2, taskVars>>

\* finally: client.release(); save returns or throws sv.outcome
SaveRelease ==
  /\ sv.pc = "finally"
  /\ sv' = [sv EXCEPT !.held = FALSE, !.pc = "done"]
  /\ UNCHANGED <<queueVars, workerVars, seedVars, janVars, rateVars,
                 sd, sq, maxRetries, db, lastSave, committed, running, ft, jan2, taskVars>>

SaveNext ==
  \/ \E r \in RangesOfSave : \E hv \in [MinBlock..MaxTip -> Hashes] : SaveConnect(r, hv)
  \/ SaveBegin
  \/ SaveBlocks
  \/ SaveTxs
  \/ SaveLogs
  \/ SaveQueryFails
  \/ SaveCommit
  \/ SaveRollback
  \/ SaveRelease

SpecSave == Init /\ [][SaveNext]_vars

\* ------------------------------------------- fetchAndTransform
\* processRange starts one fetchAndTransform task per height (pLimit lets
\* CONCURRENCY = 20 of them run at once). ft[h].outer is `attempt` of
\* Indexer.fetchAndTransform, ft[h].attempt is `attempt` of Fetcher.fetch;
\* calls and slept are history: fetchInternal calls and sleeps so far.
InitRetry ==
  /\ work = <<>> /\ processing = <<>> /\ lock = <<>>
  /\ lastQueued = Null /\ lastProcessed = Null /\ store = {}
  /\ IdleInit
  /\ pushed = [h \in MinBlock..MaxTip |-> 0]
  /\ seeded = {}
  /\ SeedersInit /\ OptionsInit /\ maxRetries \in 1..MaxAttempts /\ StoreInit /\ RunInit

\* limit(() => this.fetchAndTransform(i)): attempt++ in both loops, then the
\* first fetchInternal call is under way
FetchAndTransform(h) ==
  /\ ft[h].pc = "idle"
  /\ ft' = [ft EXCEPT ![h] = [pc |-> "call", outer |-> 1, attempt |-> 1,
                              calls |-> 0, slept |-> 0]]
  /\ UNCHANGED <<queueVars, workerVars, seedVars, janVars, rateVars,
                 sd, sq, maxRetries, db, lastSave, committed, running, sv, jan2, taskVars>>

\* fetchInternal resolves: fetch and fetchAndTransform return its records
FetchInternalOk(h) ==
  /\ ft[h].pc = "call"
  /\ ft' = [ft EXCEPT ![h].calls = @ + 1, ![h].pc = "returned"]
  /\ UNCHANGED <<queueVars, workerVars, seedVars, janVars, rateVars,
                 sd, sq, maxRetries, db, lastSave, committed, running, sv, jan2, taskVars>>

\* fetchInternal rejects. Fetcher.fetch sleeps and retries while
\* attempt < maxRetries and throws otherwise; fetchAndTransform catches that
\* throw, and itself throws only when its own attempt has reached MAX_RETRIES
FetchInternalThrows(h) ==
  /\ ft[h].pc = "call"
  /\ ft' = [ft EXCEPT ![h].calls = @ + 1,
                      ![h].pc = IF ft[h].attempt < maxRetries THEN "fetch_sleep"
                                ELSE IF ft[h].outer >= MAX_RETRIES THEN "thrown"
                                ELSE "indexer_sleep"]
  /\ UNCHANGED <<queueVars, workerVars, seedVars, janVars, rateVars,
                 sd, sq, maxRetries, db, lastSave, committed, running, sv, jan2, taskVars>>

\* the sleep in Fetcher.fetch ends: attempt++ and the next fetchInternal
FetcherBackoff(h) ==
  /\ ft[h].pc = "fetch_sleep"
  /\ ft' = [ft EXCEPT ![h].slept = @ + 1, ![h].attempt = @ + 1, ![h].pc = "call"]
  /\ UNCHANGED <<queueVars, workerVars, seedVars, janVars, rateVars,
                 sd, sq, maxRetries, db, lastSave, committed, running, sv, jan2, taskVars>>

\* the sleep in fetchAndTransform ends: attempt++ and a new fetcher.fetch
\* call, which starts its own count again
IndexerBackoff(h) ==
  /\ ft[h].pc = "indexer_sleep"
  /\ ft' = [ft EXCEPT ![h].slept = @ + 1, ![h].outer = @ + 1, ![h].attempt = 1,
                      ![h].pc = "call"]
  /\ UNCHANGED <<queueVars, workerVars, seedVars, janVars, rateVars,
                 sd, sq, maxRetries, db, lastSave, committed, running, sv, jan2, taskVars>>

RetryNext ==
  \/ \E h \in MinBlock..MaxTip : FetchAndTransform(h)
  \/ \E h \in MinBlock..MaxTip : FetchInternalOk(h)
  \/ \E h \in MinBlock..MaxTip : FetchInternalThrows(h)
  \/ \E h \in MinBlock..MaxTip : FetcherBackoff(h)
  \/ \E h \in MinBlock..MaxTip : IndexerBackoff(h)

SpecRetry == InitRetry /\ [][RetryNext]_vars

\* ------------------------------------------- Indexer.stop
\* stop(): this.isRunning = false, at any moment of the loop
Stop(w) ==
  /\ running[w]
  /\ running' = [running EXCEPT ![w] = FALSE]
  /\ UNCHANGED <<queueVars, workerVars, seedVars, janVars, rateVars,
                 sd, sq, maxRetries, db, lastSave, committed, sv, ft, jan2, taskVars>>

\* the Seeder and the workers of CoreNext, with stop requests
StopNext ==
  \/ \E t \in MinBlock..MaxTip : SeedStart(t)
  \/ SeedRpush
  \/ SeedSetLastQueued
  \/ SeederCrash
  \/ \E w \in Workers : NextBlmove(w)
  \/ \E w \in Workers : NextSetLease(w)
  \/ \E w \in Workers : ProcessOk(w)
  \/ \E w \in Workers : ProcessThrow(w)
  \/ \E w \in Workers : CompleteLrem(w)
  \/ \E w \in Workers : CompleteDel(w)
  \/ \E w \in Workers : CompleteUpdate(w)
  \/ \E w \in Workers : FailLrem(w)
  \/ \E w \in Workers : FailDel(w)
  \/ \E w \in Workers : FailRpush(w)
  \/ \E w \in Workers : Stop(w)

\* a worker whose command can be served takes its next step; nothing forces
\* the Seeder to find new blocks, a failure or a stop request
StopFairness ==
  \A w \in Workers :
    /\ WF_vars(NextBlmove(w)) /\ WF_vars(NextSetLease(w))
    /\ WF_vars(ProcessOk(w) \/ ProcessThrow(w))
    /\ WF_vars(CompleteLrem(w)) /\ WF_vars(CompleteDel(w)) /\ WF_vars(CompleteUpdate(w))
    /\ WF_vars(FailLrem(w)) /\ WF_vars(FailDel(w)) /\ WF_vars(FailRpush(w))

SpecStop == Init /\ [][StopNext]_vars /\ StopFairness

\* ------------------------------------------- an error inside complete
\* await this.updateLastProcessed(to) rejects (Redis answers the script call
\* with an error, or the call times out): complete throws inside the try
\* block of start(), after its pipeline has run, and control enters the
\* catch block with currentRange set. clearInterval has already run.
CompleteThrows(w) ==
  /\ pc[w] = "c_update" /\ throws < MaxThrows
  /\ throws' = throws + 1
  /\ pc' = [pc EXCEPT ![w] = "f_lrem"]
  /\ UNCHANGED <<queueVars, cur, heartbeat, leaked, crashes, lastAck,
                 seedVars, janVars, rateVars, auxVars>>

AckNext ==
  \/ \E t \in MinBlock..MaxTip : SeedStart(t)
  \/ SeedRpush
  \/ SeedSetLastQueued
  \/ SeederCrash
  \/ \E w \in Workers : NextBlmove(w)
  \/ \E w \in Workers : NextSetLease(w)
  \/ \E w \in Workers : ProcessOk(w)
  \/ \E w \in Workers : ProcessThrow(w)
  \/ \E w \in Workers : CompleteLrem(w)
  \/ \E w \in Workers : CompleteDel(w)
  \/ \E w \in Workers : CompleteUpdate(w)
  \/ \E w \in Workers : CompleteThrows(w)
  \/ \E w \in Workers : FailLrem(w)
  \/ \E w \in Workers : FailDel(w)
  \/ \E w \in Workers : FailRpush(w)

SpecAck == Init /\ [][AckNext]_vars

\* ------------------------------------------- leases of ranges in process
\* the Seeder and the workers; every processRange succeeds, no worker
\* crashes, no Janitor; time passes, heartbeats fire and stop() may be called
LeaseNext ==
  \/ \E t \in MinBlock..MaxTip : SeedStart(t)
  \/ SeedRpush
  \/ SeedSetLastQueued
  \/ \E w \in Workers : NextBlmove(w)
  \/ \E w \in Workers : NextSetLease(w)
  \/ \E w \in Workers : ProcessOk(w)
  \/ \E w \in Workers : CompleteLrem(w)
  \/ \E w \in Workers : CompleteDel(w)
  \/ \E w \in Workers : CompleteUpdate(w)
  \/ \E w \in Workers : Heartbeat(w)
  \/ Tick
  \/ \E w \in Workers : Stop(w)

SpecLease == Init /\ [][LeaseNext]_vars

\* ------------------------------------------- two recoverZombies calls
\* a second invocation of recoverZombies (another supervisor's Janitor, or
\* the next firing of setInterval while the previous call is still awaiting)
Jan2Lrange ==
  /\ jan2.pc = "idle" /\ processing # <<>>
  /\ jan2' = [pc |-> "exists", rest |-> processing]
  /\ UNCHANGED <<queueVars, workerVars, seedVars, janVars, rateVars,
                 sd, sq, maxRetries, db, lastSave, committed, running, sv, ft, taskVars>>

Jan2Exists ==
  /\ jan2.pc = "exists"
  /\ jan2' = IF Exists(Head(jan2.rest))
               THEN [pc |-> IF Tail(jan2.rest) = <<>> THEN "idle" ELSE "exists",
                     rest |-> Tail(jan2.rest)]
               ELSE [jan2 EXCEPT !.pc = "multi"]
  /\ UNCHANGED <<queueVars, workerVars, seedVars, janVars, rateVars,
                 sd, sq, maxRetries, db, lastSave, committed, running, sv, ft, taskVars>>

Jan2Multi ==
  /\ jan2.pc = "multi" /\ (Room \/ Count(processing, Head(jan2.rest)) > 0)
  /\ processing' = LRem1(processing, Head(jan2.rest))
  /\ work' = RPush(work, Head(jan2.rest))
  /\ jan2' = [pc |-> IF Tail(jan2.rest) = <<>> THEN "idle" ELSE "exists",
              rest |-> Tail(jan2.rest)]
  /\ UNCHANGED <<lock, lastQueued, lastProcessed, store, workerVars, seedVars, janVars,
                 rateVars, sd, sq, maxRetries, db, lastSave, committed, running, sv, ft, taskVars>>

\* the Seeder fills work, workers take ranges and may die before they set
\* the lease; no lease key is ever set, so every entry of processing is a
\* zombie to both Janitors
JanitorsNext ==
  \/ \E t \in MinBlock..MaxTip : SeedStart(t)
  \/ SeedRpush
  \/ SeedSetLastQueued
  \/ \E w \in Workers : NextBlmove(w)
  \/ \E w \in Workers : Crash(w)
  \/ JanLrange
  \/ JanExists
  \/ JanMulti
  \/ Jan2Lrange
  \/ Jan2Exists
  \/ Jan2Multi

SpecJanitors == Init /\ [][JanitorsNext]_vars

\* ------------------------------------------- Fetcher.fetch and its backoff
\* Math.floor(Math.random() * 500) when Math.random() gave n / RandomSteps
MutJitter(n) == (n * 500) \div (RandomSteps - 1)

Jitter(n) == (n * 500) \div RandomSteps

\* Math.pow(2, attempt) * 500 + Math.floor(Math.random() * 500)
Delay(attempt, n) == (2 ^ attempt) * 500 + Jitter(n)

InitBackoff ==
  /\ work = <<>> /\ processing = <<>> /\ lock = <<>>
  /\ lastQueued = Null /\ lastProcessed = Null /\ store = {}
  /\ IdleInit
  /\ pushed = [h \in MinBlock..MaxTip |-> 0]
  /\ seeded = {}
  /\ SeedersInit /\ OptionsInit /\ maxRetries \in 1..MaxFetchTries /\ StoreInit /\ RunInit

\* fetch(blockNumber): attempt = 0; the loop is entered when
\* attempt < maxRetries; attempt++ and fetchInternal is called. When the
\* loop is not entered the function body ends without a return statement
\* and the promise resolves to undefined.
FetchCall ==
  /\ bo.pc = "idle"
  /\ bo' = IF 0 < maxRetries
             THEN [pc |-> "call", attempt |-> 1, delays |-> <<>>]
             ELSE [pc |-> "undefined", attempt |-> 0, delays |-> <<>>]
  /\ UNCHANGED <<queueVars, workerVars, seedVars, janVars, rateVars,
                 sd, sq, maxRetries, db, lastSave, committed, running, sv, ft, jan2, pl, rpc>>

\* fetchInternal resolves and fetch returns its records
FetchReturns ==
  /\ bo.pc = "call"
  /\ bo' = [bo EXCEPT !.pc = "returned"]
  /\ UNCHANGED <<queueVars, workerVars, seedVars, janVars, rateVars,
                 sd, sq, maxRetries, db, lastSave, committed, running, sv, ft, jan2, pl, rpc>>

\* fetchInternal rejects: throw on the last attempt, otherwise compute the
\* delay and sleep
FetchCatch(n) ==
  /\ bo.pc = "call"
  /\ bo' = IF bo.attempt >= maxRetries
             THEN [bo EXCEPT !.pc = "thrown"]
             ELSE [bo EXCEPT !.pc = "sleep",
                             !.delays = Append(@, Delay(bo.attempt, n))]
  /\ UNCHANGED <<queueVars, workerVars, seedVars, janVars, rateVars,
                 sd, sq, maxRetries, db, lastSave, committed, running, sv, ft, jan2, pl, rpc>>

\* the sleep ends; the loop condition holds (attempt < maxRetries), attempt++
\* and the next fetchInternal call
FetchRetry ==
  /\ bo.pc = "sleep"
  /\ bo' = [bo EXCEPT !.pc = "call", !.attempt = @ + 1]
  /\ UNCHANGED <<queueVars, workerVars, seedVars, janVars, rateVars,
                 sd, sq, maxRetries, db, lastSave, committed, running, sv, ft, jan2, pl, rpc>>

BackoffNext ==
  \/ FetchCall
  \/ FetchReturns
  \/ \E n \in 0..(RandomSteps - 1) : FetchCatch(n)
  \/ FetchRetry

SpecBackoff == InitBackoff /\ [][BackoffNext]_vars

\* RPC_MAX_RETRIES is read with Number(): any number the environment gives,
\* 0 included
InitAnyRetries ==
  /\ work = <<>> /\ processing = <<>> /\ lock = <<>>
  /\ lastQueued = Null /\ lastProcessed = Null /\ store = {}
  /\ IdleInit
  /\ pushed = [h \in MinBlock..MaxTip |-> 0]
  /\ seeded = {}
  /\ SeedersInit /\ OptionsInit /\ maxRetries \in 0..MaxFetchTries /\ StoreInit /\ RunInit

SpecAnyRetries == InitAnyRetries /\ [][BackoffNext]_vars

\* ------------------------------------------- processRange task by task
Min(a, b) == IF a < b THEN a ELSE b

\* processRange: limit = pLimit(C) and one limit(() => fetchAndTransform(i))
\* per height; pLimit starts the first C at once and queues the rest
ProcessStart(w) ==
  /\ pc[w] = "process"
  /\ LET n == cur[w][2] - cur[w][1] + 1
     IN pl' = [pl EXCEPT ![w].active = Min(n, MaxBlocksAtOnce),
                         ![w].queued = n - Min(n, MaxBlocksAtOnce)]
  /\ pc' = [pc EXCEPT ![w] = "tasks"]
  /\ UNCHANGED <<queueVars, cur, heartbeat, leaked, histVars, seedVars, janVars, rateVars,
                 sd, sq, maxRetries, db, lastSave, committed, running, sv, ft, jan2, bo, rpc>>

\* a task of the current call resolves; its limiter starts the next queued one
TaskResolves(w) ==
  /\ pc[w] = "tasks" /\ pl[w].active > 0
  /\ pl' = IF pl[w].queued > 0
             THEN [pl EXCEPT ![w].queued = @ - 1]
             ELSE [pl EXCEPT ![w].active = @ - 1]
  /\ UNCHANGED <<queueVars, workerVars, seedVars, janVars, rateVars,
                 sd, sq, maxRetries, db, lastSave, committed, running, sv, ft, jan2, bo, rpc>>

\* every task has resolved: Promise.all resolves, save commits, then
\* clearInterval and complete
ProcessGathered(w) ==
  /\ pc[w] = "tasks" /\ pl[w].active = 0 /\ pl[w].queued = 0
  /\ store' = store \cup Heights(cur[w])
  /\ heartbeat' = [heartbeat EXCEPT ![w] = FALSE]
  /\ pc' = [pc EXCEPT ![w] = "c_lrem"]
  /\ UNCHANGED <<work, processing, lock, lastQueued, lastProcessed, cur, leaked, histVars,
                 seedVars, janVars, rateVars, auxVars>>

\* a task of the current call rejects: Promise.all rejects at once and
\* processRange throws into the catch block of start(). The other tasks of
\* the call are not cancelled: those running keep running, and their limiter
\* keeps starting the queued ones.
TaskRejects(w) ==
  /\ pc[w] = "tasks" /\ pl[w].active > 0 /\ throws < MaxThrows
  /\ throws' = throws + 1
  /\ pl' = [pl EXCEPT ![w] =
              [active |-> 0, queued |-> 0,
               oactive |-> pl[w].oactive
                             + (IF pl[w].queued > 0 THEN pl[w].active ELSE pl[w].active - 1),
               oqueued |-> pl[w].oqueued
                             + (IF pl[w].queued > 0 THEN pl[w].queued - 1 ELSE 0)]]
  /\ heartbeat' = [heartbeat EXCEPT ![w] = FALSE]
  /\ leaked' = [leaked EXCEPT ![w] = @ \cup {cur[w]}]
  /\ pc' = [pc EXCEPT ![w] = "f_lrem"]
  /\ UNCHANGED <<queueVars, cur, crashes, lastAck, seedVars, janVars, rateVars,
                 sd, sq, maxRetries, db, lastSave, committed, running, sv, ft, jan2, bo, rpc>>

\* a task of an earlier call settles (nobody awaits it any more)
OrphanSettles(w) ==
  /\ pl[w].oactive > 0
  /\ pl' = IF pl[w].oqueued > 0
             THEN [pl EXCEPT ![w].oqueued = @ - 1]
             ELSE [pl EXCEPT ![w].oactive = @ - 1]
  /\ UNCHANGED <<queueVars, workerVars, seedVars, janVars, rateVars,
                 sd, sq, maxRetries, db, lastSave, committed, running, sv, ft, jan2, bo, rpc>>

TasksNext ==
  \/ \E t \in MinBlock..MaxTip : SeedStart(t)
  \/ SeedRpush
  \/ SeedSetLastQueued
  \/ \E w \in Workers : NextBlmove(w)
  \/ \E w \in Workers : NextSetLease(w)
  \/ \E w \in Workers : ProcessStart(w)
  \/ \E w \in Workers : TaskResolves(w)
  \/ \E w \in Workers : ProcessGathered(w)
  \/ \E w \in Workers : TaskRejects(w)
  \/ \E w \in Workers : OrphanSettles(w)
  \/ \E w \in Workers : CompleteLrem(w)
  \/ \E w \in Workers : CompleteDel(w)
  \/ \E w \in Workers : CompleteUpdate(w)
  \/ \E w \in Workers : FailLrem(w)
  \/ \E w \in Workers : FailDel(w)
  \/ \E w \in Workers : FailRpush(w)

SpecTasks == Init /\ [][TasksNext]_vars

\* ------------------------------------------- fetchInternal and its tokens
\* Callers are the two request tasks of fetchInternal (eth_getBlockByNumber
\* and eth_getBlockReceipts); a task starts again with the next attempt.
\* blockTask / receiptsTask: await this.waitForToken()
TaskStart(c) ==
  /\ rpc.task[c].pc = "idle"
  /\ rpc' = [rpc EXCEPT !.task[c].pc = "acquire"]
  /\ UNCHANGED <<queueVars, workerVars, seedVars, janVars, rateVars,
                 sd, sq, maxRetries, db, lastSave, committed, running, sv, ft, jan2, bo, pl>>

MutWaitForTokenTry(c) ==
  /\ rpc.task[c].pc = "acquire" /\ nextId < MaxCalls
  /\ LET a == AcquireScript(rlLog, rlTtl, WindowMs, Limit, clock, RandomUUID(nextId))
     IN /\ rlLog' = a[1] /\ rlTtl' = a[2]
        /\ admitted' = IF a[3] = 1 THEN Append(admitted, clock) ELSE admitted
        /\ rpc' = [rpc EXCEPT !.task[c].pc = "granted",
                              !.task[c].granted = IF a[3] = 1 THEN @ + 1 ELSE @]
  /\ nextId' = nextId + 1
  /\ UNCHANGED <<queueVars, workerVars, seedVars, janVars,
                 rlTwin, rlTwinTtl, clock, sampled, lastRes,
                 sd, sq, maxRetries, db, lastSave, committed, running, sv, ft, jan2, bo, pl>>

\* one pass of the loop of waitForToken: allowed = await acquireToken(...);
\* the loop ends when allowed, otherwise the task sleeps a jitter
WaitForTokenTry(c) ==
  /\ rpc.task[c].pc = "acquire" /\ nextId < MaxCalls
  /\ LET a == AcquireScript(rlLog, rlTtl, WindowMs, Limit, clock, RandomUUID(nextId))
     IN /\ rlLog' = a[1] /\ rlTtl' = a[2]
        /\ admitted' = IF a[3] = 1 THEN Append(admitted, clock) ELSE admitted
        /\ rpc' = [rpc EXCEPT !.task[c].pc = IF a[3] = 1 THEN "granted" ELSE "jitter",
                              !.task[c].granted = IF a[3] = 1 THEN @ + 1 ELSE @]
  /\ nextId' = nextId + 1
  /\ UNCHANGED <<queueVars, workerVars, seedVars, janVars,
                 rlTwin, rlTwinTtl, clock, sampled, lastRes,
                 sd, sq, maxRetries, db, lastSave, committed, running, sv, ft, jan2, bo, pl>>

\* the jitter sleep ends and the loop asks again
WaitForTokenSleep(c) ==
  /\ rpc.task[c].pc = "jitter"
  /\ rpc' = [rpc EXCEPT !.task[c].pc = "acquire"]
  /\ UNCHANGED <<queueVars, workerVars, seedVars, janVars, rateVars,
                 sd, sq, maxRetries, db, lastSave, committed, running, sv, ft, jan2, bo, pl>>

\* waitForToken has returned: this.client.request(...)
TaskRequest(c) ==
  /\ rpc.task[c].pc = "granted"
  /\ rpc' = [rpc EXCEPT !.task[c].pc = "idle", !.task[c].sent = @ + 1]
  /\ UNCHANGED <<queueVars, workerVars, seedVars, janVars, rateVars,
                 sd, sq, maxRetries, db, lastSave, committed, running, sv, ft, jan2, bo, pl>>

RpcNext ==
  \/ \E c \in Callers : TaskStart(c)
  \/ \E c \in Callers : WaitForTokenTry(c)
  \/ \E c \in Callers : WaitForTokenSleep(c)
  \/ \E c \in Callers : TaskRequest(c)
  \/ ClockTick

SpecRpc == Init /\ [][RpcNext]_vars

\* ------------------------------------------- every client of the provider
\* main (before the first seed) and the Seeder's interval:
\* rpcClient.getBlockNumber(), an eth_blockNumber request sent as it is
TipQuery ==
  /\ rpc.tips < MaxTipQueries
  /\ rpc' = [rpc EXCEPT !.tips = @ + 1]
  /\ UNCHANGED <<queueVars, workerVars, seedVars, janVars, rateVars,
                 sd, sq, maxRetries, db, lastSave, committed, running, sv, ft, jan2, bo, pl>>

ProviderNext ==
  \/ \E c \in Callers : TaskStart(c)
  \/ \E c \in Callers : WaitForTokenTry(c)
  \/ \E c \in Callers : WaitForTokenSleep(c)
  \/ \E c \in Callers : TaskRequest(c)
  \/ ClockTick
  \/ TipQuery

SpecProvider == Init /\ [][ProviderNext]_vars

\* ------------------------------------------- a lease that ran out
\* worker 1 has leased 1-1 (BLMOVE, SET) and is in processRange when stop()
\* is called on it: its interval stays armed but the callback no longer
\* calls extendLease. Worker 2 is idle, the Janitor is between scans.
InitOwner ==
  /\ work = <<>> /\ processing = <<RangeStr(MinBlock, MinBlock)>>
  /\ lock = [r \in {RangeStr(MinBlock, MinBlock)} |-> LeaseTTL]
  /\ lastQueued = MinBlock /\ lastProcessed = Null /\ store = {}
  /\ pc = [w \in Workers |-> IF w = 1 THEN "process" ELSE "next"]
  /\ cur = [w \in Workers |-> IF w = 1 THEN <<MinBlock, MinBlock>> ELSE NoRange]
  /\ heartbeat = [w \in Workers |-> w = 1]
  /\ leaked = [w \in Workers |-> {}]
  /\ throws = 0 /\ crashes = 0 /\ lastAck = Null
  /\ spc = "idle" /\ sTarget = Null /\ sStart = Null /\ sNext = Null
  /\ seeds = MaxSeeds
  /\ pushed = [h \in MinBlock..MaxTip |-> IF h = MinBlock THEN 1 ELSE 0]
  /\ seeded = {RangeStr(MinBlock, MinBlock)}
  /\ jpc = "idle" /\ jrest = <<>> /\ scans = 0
  /\ rlLog = {} /\ rlTtl = 0 /\ rlTwin = {} /\ rlTwinTtl = 0
  /\ clock = 0
  /\ sampled = [c \in Callers |-> NoSample]
  /\ nextId = 0 /\ admitted = <<>> /\ lastRes = <<Null, Null>>
  /\ SeedersInit /\ OptionsInit /\ maxRetries = MaxRetries /\ StoreInit
  /\ running = [w \in Workers |-> w # 1]
  /\ sv = SaveIdle
  /\ ft = [h \in MinBlock..MaxTip |-> FetchIdle]
  /\ jan2 = [pc |-> "idle", rest |-> <<>>]
  /\ bo = BackoffIdle
  /\ pl = [w \in Workers |-> LimiterIdle]
  /\ rpc = RpcIdle

\* the workers, their heartbeats, the passing of time, the Janitor and
\* stop(); no worker thread dies
OwnerNext ==
  \/ \E w \in Workers : NextBlmove(w)
  \/ \E w \in Workers : NextSetLease(w)
  \/ \E w \in Workers : ProcessOk(w)
  \/ \E w \in Workers : ProcessThrow(w)
  \/ \E w \in Workers : CompleteLrem(w)
  \/ \E w \in Workers : CompleteDel(w)
  \/ \E w \in Workers : CompleteUpdate(w)
  \/ \E w \in Workers : FailLrem(w)
  \/ \E w \in Workers : FailDel(w)
  \/ \E w \in Workers : FailRpush(w)
  \/ \E w \in Workers : Heartbeat(w)
  \/ Tick
  \/ JanLrange
  \/ JanExists
  \/ JanMulti
  \/ \E w \in Workers : Stop(w)

SpecOwner == InitOwner /\ [][OwnerNext]_vars

\* ------------------------------------------------------------ claims
InLists(r) == r \in Elems(work) \cup Elems(processing)

\* next() has returned r to w and w has not yet called complete or fail
Owns(w, r) == pc[w] = "process" /\ cur[w] = r

\* seed never appended a height twice (no Seeder restart in the history)
SeededOnce == \A h \in DOMAIN pushed : pushed[h] <= 1

\* C1: while no worker has crashed (every live worker heartbeats before a
\* lease interval ends, LeaseTTL >= 2 intervals) and the single Seeder has
\* appended every height once, no two workers own the same range at once.
C1_ExclusiveOwnership ==
  (crashes = 0 /\ SeededOnce) =>
    \A a, b \in Workers : \A r \in seeded :
      (a # b /\ Owns(a, r)) => ~Owns(b, r)

\* no worker is between two commands of a complete or fail pipeline
NoPipelineInFlight == \A w \in Workers : pc[w] \notin {"c_del", "f_del", "f_rpush"}

\* C2: with a single Seeder that was never restarted and no crashed worker,
\* in every state between pipelines, every range seed has appended and
\* whose heights are not all persisted is in work or in processing, and no
\* range is in both lists.
C2_Membership ==
  (crashes = 0 /\ SeededOnce /\ NoPipelineInFlight) =>
  /\ \A r \in seeded : ~(Heights(r) \subseteq store) => InLists(r)
  /\ Elems(work) \cap Elems(processing) = {}

\* C3: when lastQueued is set, every height from minBlockNumber to
\* lastQueued lies in a range in work or in processing, or is persisted.
C3_Coverage ==
  lastQueued # Null =>
    \A h \in MinBlock..lastQueued :
      \/ h \in store
      \/ \E r \in Elems(work) \cup Elems(processing) : h \in Heights(r)

\* r is held by a crashed worker only: its single entry is in processing,
\* it is not in work and no live worker has it as currentRange
ZombieOf(r) ==
  /\ \E w \in Workers : pc[w] = "crashed" /\ cur[w] = r
  /\ Count(processing, r) = 1 /\ Count(work, r) = 0
  /\ \A w \in Workers : pc[w] # "crashed" => cur[w] # r

\* C4: a range whose holder crashed is eventually back in work, whatever
\* happened to the range before (other workers may have leased and failed it).
C4_ZombieRecovered ==
  \A r \in Ranges : ZombieOf(r) ~> (r \in Elems(work))

\* C5: over any W consecutive milliseconds of coordinator time at most
\* Limit calls are admitted.
C5_RateBound ==
  \A t \in 0..MaxClock :
    Cardinality({i \in 1..Len(admitted) :
                   admitted[i] >= t /\ admitted[i] < t + WindowMs}) <= Limit

\* C6: a call gets the same answer in two runs that differ only in the
\* values of the workers' clocks.
C6_ClockSkewIndependent == lastRes[1] = lastRes[2]

\* C7: lastProcessed never decreases, and the script run by complete(from,
\* to) leaves it at the maximum of its value just before the script and to.
C7_LastProcessedMonotone ==
  [][/\ lastProcessed' >= lastProcessed
     /\ \A w \in Workers :
          (pc[w] = "c_update" /\ pc'[w] = "next") =>
             lastProcessed' = Max(lastProcessed, cur[w][2])]_vars

\* a complete() with a lower `to` ran after one with a higher `to`
C7_Witness == lastAck # Null /\ lastProcessed # Null /\ lastAck < lastProcessed

\* C8: lastProcessed <= lastQueued in every state (a set lastProcessed
\* implies a set lastQueued at least as large).
C8_WatermarkOrder ==
  lastProcessed # Null => (lastQueued # Null /\ lastProcessed <= lastQueued)

\* C9: lastQueued never decreases under seed calls issued one after
\* another with arbitrary targets.
C9_LastQueuedMonotone == [][lastQueued' >= lastQueued]_vars

\* a seed whose target is below lastQueued has returned
C9_Witness ==
  spc = "idle" /\ lastQueued # Null /\ sTarget # Null /\ sTarget < lastQueued

\* C10: across Seeder restarts no height is appended to work by seed twice.
C10_SeedIdempotent == \A h \in DOMAIN pushed : pushed[h] <= 1

\* the largest target for which seed appended ranges: the end of the last
\* range of a call is its target
MaxAppended == CHOOSE m \in {r[2] : r \in seeded} : \A r \in seeded : r[2] <= m

\* every seed call of every Seeder process has returned
SeedersReturned == \A s \in Seeders : sd[s].pc = "idle"

\* C11: with the seed calls of two Seeder processes interleaved command by
\* command, once every call has returned lastQueued is the largest target
\* for which ranges were appended.
C11_SeedersTolerated ==
  (SeedersReturned /\ seeded # {}) => lastQueued = MaxAppended


\* the latest seed call had start <= target
SeedAppended ==
  /\ sq.target # Null
  /\ (IF sq.lastQueuedBefore # Null THEN sq.lastQueuedBefore + 1
                                    ELSE sq.minBlockNumber) <= sq.target

\* what the latest seed call added to work
SeedTail == SubSeq(work, Len(sq.workBefore) + 1, Len(work))

SeedNoopCase(lq, minBlockNumber, t) ==
  \/ lq # Null /\ lq >= t
  \/ lq = Null /\ minBlockNumber > t

C14_FifoHandOff ==
  [][/\ \/ work' = work
        \/ \E r \in Ranges : work' = Append(work, r)
        \/ /\ work # <<>> /\ work' = Tail(work)
           /\ processing' = Append(processing, Head(work))
           /\ \E w \in Workers :
                pc[w] = "next" /\ pc'[w] = "lease" /\ cur'[w] = Head(work)
     /\ \A w \in Workers :
          /\ (pc[w] = "next" /\ pc'[w] # "next") =>
                (work # <<>> /\ work' = Tail(work) /\ cur'[w] = Head(work))
          /\ (pc[w] = "lease" /\ pc'[w] = "process") => cur'[w] = cur[w]]_vars

\* two ranges seeded one after the other were handed to two workers in
\* that order, with no failure
C14_Witness ==
  /\ throws = 0
  /\ processing = <<RangeStr(MinBlock, MinBlock), RangeStr(MinBlock + 1, MinBlock + 1)>>
  /\ \E a, b \in Workers :
       /\ a # b /\ pc[a] = "process" /\ pc[b] = "process"
       /\ cur[a] = processing[1] /\ cur[b] = processing[2]

\* r was acknowledged: persisted, out of both lists, lastProcessed >= to
Completed(r) ==
  /\ Heights(r) \subseteq store /\ ~InLists(r)
  /\ lastProcessed # Null /\ lastProcessed >= r[2]

\* C15: with one worker and a range that fails on every attempt, every
\* other range that is in work is eventually completed.
C15_PoisonNoStarvation ==
  \A r \in Ranges \ {Poison} : (r \in Elems(work)) ~> Completed(r)

\* another range was completed after the poison range had failed, and the
\* poison range is still queued
C15_Witness ==
  /\ \E r \in Ranges \ {Poison} : r \in seeded /\ Completed(r)
  /\ \E w \in Workers : Poison \in leaked[w]
  /\ Poison \in Elems(work)

\* both lists empty, every seeded height persisted, both watermarks at
\* the target
Converged ==
  /\ work = <<>> /\ processing = <<>>
  /\ lastQueued # Null /\ MinBlock..lastQueued \subseteq store
  /\ lastProcessed = lastQueued

\* C16: after seed(target), with no further seeding, no fetch or save
\* failure, fair scheduling and at least one worker that keeps running, the
\* system reaches and stays in the converged state.
C16_Convergence == <>[]Converged

\* C17: a worker that is in complete(f, t) has every height of [f, t]
\* committed in the store.
C17_PersistBeforeAck ==
  \A w \in Workers :
    pc[w] \in {"c_lrem", "c_del", "c_update"} => Heights(cur[w]) \subseteq store

\* C18: a processRange that raises is followed by fail(from, to) of the
\* leased range: one occurrence leaves processing, the lease key is deleted,
\* the range is appended at the tail of work, and the worker starts a new
\* iteration; when fail returns the key is still absent unless another
\* copy of the range exists.
C18_FailHandling ==
  [][\A w \in Workers :
       /\ (pc[w] = "process" /\ pc'[w] \notin {"process", "c_lrem"}) =>
             (pc'[w] = "f_lrem" /\ cur'[w] = cur[w])
       /\ (pc[w] = "f_lrem" /\ pc'[w] # "f_lrem") =>
             (pc'[w] = "f_del" /\ processing' = LRem1(processing, cur[w]))
       /\ (pc[w] = "f_del" /\ pc'[w] # "f_del") =>
             (pc'[w] = "f_rpush" /\ cur[w] \notin DOMAIN lock')
       /\ (pc[w] = "f_rpush" /\ pc'[w] # "f_rpush") =>
             /\ pc'[w] = "next"
             /\ work' = Append(work, cur[w])
             /\ SeededOnce => cur[w] \notin DOMAIN lock']_vars

\* a worker has failed a range and is in its next iteration; the range is
\* the last entry of work and has no lease key
C18_Witness ==
  \E w \in Workers : \E r \in leaked[w] :
    /\ pc[w] = "next" /\ work # <<>> /\ work[Len(work)] = r
    /\ r \notin DOMAIN lock

\* the worker step that ran processRange (and with it one save call)
Saved(w) == pc[w] = "process" /\ pc'[w] # "process"

\* C19: a save call with the blocks, transactions and logs of a call that
\* has committed before commits without error and leaves the three tables
\* as they were.
C19_SaveIdempotent ==
  [][\A w \in Workers :
       (Saved(w) /\ <<lastSave'.blocks, lastSave'.txs, lastSave'.logs>> \in committed)
         => (lastSave'.outcome = "ok" /\ db' = db)]_vars

\* the same records were saved a second time, by a worker that processed a
\* second copy of the range, and the call committed
C19_Witness ==
  /\ lastSave.outcome = "ok"
  /\ \E w \in Workers : pc[w] = "c_lrem" /\ cur[w] = lastSave.range
  /\ \E w \in Workers : pc[w] \in {"c_del", "c_update"} /\ cur[w] = lastSave.range

\* a block of the call has its number in the store under another hash
HashDiffers(d, blocks) ==
  \E i \in 1..Len(blocks) : \E e \in d.blocks :
    e.number = blocks[i].number /\ e.hash # blocks[i].hash

\* C20: a save given a block whose number is stored with a different hash
\* raises ReorgDetected, leaves every table as it was, and the worker goes
\* on to fail the range; a save whose blocks only meet rows with equal
\* hashes commits and keeps those rows.
C20_ReorgDetected ==
  [][\A w \in Workers :
       Saved(w) =>
         IF HashDiffers(db, lastSave'.blocks)
           THEN /\ lastSave'.outcome = "ReorgDetected"
                /\ db' = db
                /\ pc'[w] = "f_lrem" /\ cur'[w] = cur[w]
           ELSE /\ lastSave'.outcome = "ok"
                /\ db.blocks \subseteq db'.blocks]_vars

\* a save met a stored block with another hash and the worker is about to
\* fail the range; the stored row is still there
C20_Witness ==
  /\ lastSave.outcome = "ReorgDetected"
  /\ HashDiffers(db, lastSave.blocks)
  /\ \E w \in Workers : pc[w] = "f_lrem" /\ cur[w] = lastSave.range

\* the rows of the arrays handed to the save call in progress
ArgRowsVisible ==
  /\ \A i \in 1..Len(sv.blocks) : sv.blocks[i] \in db.blocks
  /\ \A i \in 1..Len(sv.txs) : sv.txs[i] \in db.txs
  /\ \A i \in 1..Len(sv.logs) : sv.logs[i] \in db.logs

\* C21: a save call in which a statement failed leaves the three tables as
\* they were when it was called, throws, and has released its client when it
\* returns; until COMMIT the tables show nothing of the call, and after it
\* every row of the three arrays is there
C21_SaveAtomicity ==
  /\ sv.pc \notin {"idle", "finally", "done"} => db = sv.before
  /\ sv.pc \in {"finally", "done"} /\ sv.err # "none" =>
        db = sv.before /\ sv.outcome \notin {"ok", "none"}
  /\ sv.pc \in {"finally", "done"} /\ sv.err = "none" =>
        sv.outcome = "ok" /\ ArgRowsVisible
  /\ sv.pc = "done" => ~sv.held

\* a call whose logs statement failed after its block and transaction rows
\* were written has returned
C21_Witness ==
  /\ sv.pc = "done" /\ sv.at = "logs" /\ sv.outcome = "57014"
  /\ sv.blocks # <<>> /\ sv.blocks[1] \notin db.blocks
  /\ db.blocks # {}

\* C22: for every height, at most maxRetries fetchInternal calls are made
\* in one range iteration, no sleep follows the last of them, and after the
\* maxRetries-th failed call the task has thrown
C22_BoundedRetries ==
  \A h \in MinBlock..MaxTip :
    /\ ft[h].calls <= maxRetries
    /\ ft[h].pc \in {"fetch_sleep", "indexer_sleep"} => ft[h].calls < maxRetries
    /\ ft[h].calls = maxRetries /\ ft[h].pc # "returned" => ft[h].pc = "thrown"

\* C23: a worker whose stop() was called takes no further range out of
\* work, and its loop eventually exits, also when it is blocked in next()
C23_ShutdownLiveness ==
  /\ [][\A w \in Workers :
          ~running[w] /\ pc[w] = "next" => pc'[w] # "lease"]_vars
  /\ \A w \in Workers : (~running[w]) ~> (pc[w] = "exited")

\* C24: a call whose script runs while the log holds an entry with the
\* call's own timestamp and fewer than Limit live entries is admitted, and
\* the log then holds one more entry with that timestamp than before
C24_SameMillisecond ==
  [][\A c \in Callers :
       (/\ sampled[c] # NoSample /\ sampled'[c] = NoSample
        /\ \E e \in rlLog : e[1] = sampled[c][1]
        /\ Cardinality(ZRemRangeByScore(rlLog, sampled[c][1] - WindowMs)) <= Limit - 1)
       => /\ lastRes'[1] = 1
          /\ Cardinality({e \in rlLog' : e[1] = sampled[c][1]})
               = Cardinality({e \in rlLog : e[1] = sampled[c][1]}) + 1]_vars

\* two admitted calls with one timestamp are both in the log
C24_Witness ==
  \E e1 \in rlLog : \E e2 \in rlLog :
    e1[1] = e2[1] /\ e1[2] # e2[2] /\ Len(admitted) >= 2

\* C25: an iteration that holds a range ends in complete or in fail, and a
\* worker that has called complete does not call fail for the same range
C25_CompleteXorFail ==
  [][\A w \in Workers :
       /\ pc[w] = "process" /\ pc'[w] # "process" => pc'[w] \in {"c_lrem", "f_lrem"}
       /\ pc[w] \in {"c_lrem", "c_del", "c_update"} =>
             pc'[w] \notin {"f_lrem", "f_del", "f_rpush"}]_vars

\* C26: extend_lease is issued only by iterations that have not ended: every
\* refresh of the lease of r comes from a worker that holds r in an iteration
\* whose complete or fail has not yet returned
C26_HeartbeatStops ==
  [][\A r \in Ranges :
       (\E w \in Workers : ExtendLease(w, r)) /\ lock' # lock =>
          \E v \in Workers : cur[v] = r /\ pc[v] \notin {"next", "lease", "exited", "crashed"}]_vars

\* C27: while a worker is processing the range it leased, the lease key of
\* that range exists, also after stop() was called
C27_LeaseKeptAlive ==
  \A w \in Workers : pc[w] = "process" => Exists(RangeStr(cur[w][1], cur[w][2]))

\* C28: when the Janitor's multi-op for range r executes while the lease key
\* of r exists, r stays in processing and nothing is appended to work
C28_AtomicCheckAndRecover ==
  [][jpc = "multi" /\ jpc' # "multi" /\ Exists(Head(jrest)) =>
       processing' = processing /\ work' = work]_vars

\* C29: with two recoverZombies calls interleaved, every append a Janitor
\* makes to work takes one occurrence of the range out of processing
C29_NoDoubleRecovery ==
  [][(jpc = "multi" /\ jpc' # "multi") \/ (jan2.pc = "multi" /\ jan2'.pc # "multi") =>
       Len(processing') = Len(processing) - 1]_vars

\* C30: complete(from, to) takes one occurrence of the range out of
\* processing (none if there is none) and leaves the other entries as they
\* are, deletes the lease key of the range and no other, and sets
\* lastProcessed to max(lastProcessed, to); work and lastQueued are untouched
C30_CompleteEffect ==
  [][\A w \in Workers :
       LET r == RangeStr(cur[w][1], cur[w][2]) IN
       /\ pc[w] = "c_lrem" /\ pc'[w] = "c_del" =>
            /\ Count(processing', r) = IF Count(processing, r) > 0
                                         THEN Count(processing, r) - 1 ELSE 0
            /\ \A q \in Elems(processing) \ {r} :
                  Count(processing', q) = Count(processing, q)
            /\ Len(processing') = Len(processing) - (IF Count(processing, r) > 0 THEN 1 ELSE 0)
            /\ UNCHANGED <<work, lock, lastQueued, lastProcessed>>
       /\ pc[w] = "c_del" /\ pc'[w] = "c_update" =>
            /\ DOMAIN lock' = DOMAIN lock \ {r}
            /\ \A x \in DOMAIN lock' : lock'[x] = lock[x]
            /\ UNCHANGED <<work, processing, lastQueued, lastProcessed>>
       /\ pc[w] = "c_update" /\ pc'[w] # "c_update" =>
            /\ lastProcessed' = Max(lastProcessed, cur[w][2])
            /\ UNCHANGED <<work, processing, lock, lastQueued>>]_vars

\* complete of a lower range has returned after complete of a higher one
C30_Witness ==
  /\ lastAck # Null /\ lastProcessed > lastAck
  /\ \A w \in Workers : pc[w] = "next" /\ cur[w] = NoRange
  /\ processing = <<>> /\ lock = <<>>

\* C31: fail(from, to) is one step to every other client: while a worker
\* is in fail, its range is in work or in processing in every state
C31_FailAtomic ==
  SeededOnce =>
    \A w \in Workers :
      pc[w] \in {"f_lrem", "f_del", "f_rpush"} => InLists(RangeStr(cur[w][1], cur[w][2]))

\* C32: the k-th sleep of a fetch call follows its k-th failed attempt,
\* k <= maxRetries - 1, and lasts d ms with 2^k * 500 <= d < 2^k * 500 + 500;
\* the first is at least 1000 ms
C32_BackoffDelays ==
  /\ Len(bo.delays) <= maxRetries - 1
  /\ bo.pc # "idle" =>
        Len(bo.delays) = IF bo.pc = "sleep" THEN bo.attempt ELSE bo.attempt - 1
  /\ \A k \in 1..Len(bo.delays) :
        /\ (2 ^ k) * 500 <= bo.delays[k]
        /\ bo.delays[k] < (2 ^ k) * 500 + 500
  /\ Len(bo.delays) >= 1 => bo.delays[1] >= 1000

\* a call that slept three times, the first time with jitter, has thrown
C32_Witness ==
  /\ bo.pc = "thrown" /\ Len(bo.delays) = 3
  /\ bo.delays[1] > 1000 /\ bo.delays[3] >= 4000

\* C33: the fetch tasks a worker has started and that have not settled,
\* those of ranges it has already failed included, never number more than
\* maxBlocksToProcessAtOnce
C33_BoundedConcurrency ==
  \A w \in Workers : pl[w].active + pl[w].oactive <= MaxBlocksAtOnce

\* requests the two tasks have sent, admissions they have been given
RequestsSent == rpc.task[1].sent + rpc.task[2].sent
TokensGranted == rpc.task[1].granted + rpc.task[2].granted

\* C34: every request a task sends was preceded by an admission of its own:
\* a task holds one admission more than it has sent requests exactly while
\* waitForToken has returned and the request is not yet sent, and the
\* admissions of the tasks are the admissions of the rate limiter
C34_TokenPerRequest ==
  /\ \A c \in Callers :
        rpc.task[c].granted =
          rpc.task[c].sent + (IF rpc.task[c].pc = "granted" THEN 1 ELSE 0)
  /\ TokensGranted = Len(admitted)

\* both tasks have sent a request, and one of them was rejected on the way
C34_Witness ==
  /\ rpc.task[1].sent >= 1 /\ rpc.task[2].sent >= 1
  /\ nextId > TokensGranted
  /\ RequestsSent >= 3

\* C38: every request the provider has received, eth_blockNumber included,
\* was preceded by an admission
C38_BudgetCoversAll == RequestsSent + rpc.tips <= Len(admitted)

\* occurrences of range r across work and processing
Occurrences(r) == Count(work, r) + Count(processing, r)

\* C35: no operation other than seed adds an occurrence of a range to work
\* and processing taken together: a range whose heights seed has appended
\* once occurs at most once across the two lists, however workers and the
\* Janitor interleave
C35_Conservation ==
  \A r \in Ranges : pushed[r[1]] <= 1 => Occurrences(RangeStr(r[1], r[2])) <= 1

\* C36: while worker b holds range r under a live lease and with an entry
\* in processing, no command of another worker's complete or fail for r
\* deletes the lease key of r or takes r out of processing
C36_LeaseOwnership ==
  [][\A a, b \in Workers :
       LET r == RangeStr(cur[b][1], cur[b][2]) IN
       /\ a # b /\ Owns(b, cur[a])
       /\ Exists(r) /\ Count(processing, r) >= 1
       /\ pc[a] \in {"c_lrem", "c_del", "f_lrem", "f_del"} /\ pc'[a] # pc[a]
       => r \in DOMAIN lock' /\ Count(processing', r) >= 1]_vars

\* C37: for every maxRetries, 0 included, a fetch call that has ended has
\* returned the records of fetchInternal or has thrown
C37_FetchNeverEmpty ==
  bo.pc \notin {"idle", "call", "sleep"} => bo.pc \in {"returned", "thrown"}

\* C39: between pipelines, every range whose lease key exists has an entry
\* in processing
C39_LeasesCoverInFlight ==
  NoPipelineInFlight => \A r \in DOMAIN lock : Count(processing, r) >= 1

\* C40: extendLease(from, to) sets the TTL of the lease key of the range to
\* leaseTTL when the key exists and creates no key when it does not; every
\* other key keeps its TTL, and work, processing, lastQueued and
\* lastProcessed are unchanged
C40_ExtendLeaseFrame ==
  [][\A w \in Workers : \A r \in Ranges :
       ExtendLease(w, r) =>
         /\ DOMAIN lock' = DOMAIN lock
         /\ r \in DOMAIN lock => lock'[r] = LeaseTTL
         /\ \A x \in DOMAIN lock \ {r} : lock'[x] = lock[x]
         /\ UNCHANGED <<work, processing, lastQueued, lastProcessed>>]_vars

\* an interval of a running worker is armed for a range whose key was
\* deleted and that is back in work: its extendLease calls find no key
C40_Witness ==
  \E w \in Workers : \E r \in Beating(w) :
    r \notin DOMAIN lock /\ Count(work, r) >= 1 /\ pc[w] = "next"

\* coverage holds whenever no fail pipeline is between its LREM and RPUSH
CoverageBetweenPipelines ==
  (\A w \in Workers : pc[w] \notin {"f_del", "f_rpush"}) => C3_Coverage

====
